---- MODULE Spec2Model ----
(***************************************************************************)
(* A state-machine model of the post-processing pipeline: the pipeline     *)
(* scheduler with its two alternating colour buffers, the concrete passes  *)
(* BloomPass and ToneMappingPass, the effects NoiseEffect, DepthEffect and *)
(* OutlineEffect, and the fused EffectPass that owns effects.              *)
(*                                                                         *)
(* A frame buffer holds a uniformly coloured image, so its content is one  *)
(* brightness level in 0..MaxLevel.  A blur of a uniform image is the      *)
(* image itself; the other shader programs are abstracted to small integer *)
(* functions that keep their data flow (which buffer is read, which is     *)
(* written, in which order).                                               *)
(***************************************************************************)
EXTENDS Integers, Sequences, FiniteSets, TLC

(* ------------------------------ bounds -------------------------------- *)

\* Brightness levels of a buffer are 0..MaxLevel.
MaxLevel == 2

\* OutlineEffect.time is capped at MaxTime ticks.
MaxTime == 2

\* The compile-artifact version counter of an EffectPass is capped.
MaxVersion == 3

\* An EffectPass holds at most MaxEffects effects.
MaxEffects == 2

\* The changes made since the last render are counted up to MaxPending.
MaxPending == 2

Colors == 0 .. MaxLevel

\* Frame delta times handed to render(dt).
Deltas == {0, 1}

Min(a, b) == IF a < b THEN a ELSE b

(* ------------------------------ passes -------------------------------- *)

\* The pass objects the host constructs.
PassIds == {"tone", "bloom", "fx", "shader"}

\* Pass.needsSwap: "produces new colour data".  ToneMappingPass sets it in
\* its constructor; BloomPass leaves the default of Pass.  A ToneMappingPass
\* whose constructor does not set the flag is ToneMappingPassNeedsSwapUnset.
ToneMappingPassNeedsSwapUnset == FALSE

ToneMappingPassNeedsSwap == TRUE

PassDefaultNeedsSwap == FALSE

BloomPassNeedsSwap == PassDefaultNeedsSwap

EffectPassNeedsSwap == TRUE

ShaderPassNeedsSwap == TRUE

needsSwap(p) ==
    CASE p = "tone" -> ToneMappingPassNeedsSwap
      [] p = "bloom" -> BloomPassNeedsSwap
      [] p = "fx" -> EffectPassNeedsSwap
      [] OTHER -> ShaderPassNeedsSwap

\* GPU resources an object owns (render targets, materials, passes).
OwnedResources(o) ==
    CASE o = "tone" -> {"tone.renderTargetLuminosity", "tone.renderTargetAdapted",
                        "tone.renderTargetPrevious", "tone.copyMaterial",
                        "tone.luminosityMaterial", "tone.adaptiveLuminosityMaterial",
                        "tone.toneMappingMaterial"}
      [] o = "bloom" -> {"bloom.renderTargetX", "bloom.renderTargetY",
                         "bloom.combineMaterial", "bloom.copyMaterial",
                         "bloom.luminosityMaterial", "bloom.convolutionMaterial"}
      [] o = "fx" -> {"fx.fullscreenMaterial"}
      [] o = "shader" -> {"shader.fullscreenMaterial"}
      [] o = "outline" -> {"outline.renderTargetMask", "outline.renderTargetOutline",
                           "outline.clearPass", "outline.depthPass",
                           "outline.maskPass", "outline.blurPass",
                           "outline.outlinePass"}
      [] o = "scheduler" -> {"scheduler.inputBuffer", "scheduler.outputBuffer",
                             "scheduler.depthTexture"}
      [] OTHER -> {}

Resources ==
    UNION {OwnedResources(o) : o \in PassIds \cup {"outline", "scheduler"}}

(* ------------------------- shader abstractions ------------------------ *)

\* LuminosityMaterial: the luminance of a uniform image.
Luminance(c) == c

\* LuminosityMaterial(true) of BloomPass: a bright-pass filter, only the
\* brightest level survives.
BrightPass(c) == IF c = MaxLevel THEN 1 ELSE 0

\* ConvolutionMaterial: a Kawase blur; a uniform image is its own blur.
Convolve(c) == c

\* CopyMaterial with AdditiveBlending drawn over a target: saturating add.
AdditiveBlend(dst, src) == Min(MaxLevel, dst + src)

\* CombineMaterial: texture1 * opacity1 + texture2 * opacity2.
Combine(a, b) == Min(MaxLevel, a + b)

\* An adaptation that starts from black instead of the previous luminance.
AdaptLuminanceFromBlack(prev, cur, delta) == IF delta = 0 \/ cur = 0 THEN 0 ELSE 1

\* AdaptiveLuminosityMaterial: moves the previous luminance towards the
\* current one by an amount that grows with delta.
AdaptLuminance(prev, cur, delta) ==
    IF delta = 0 THEN prev
    ELSE IF cur > prev THEN prev + 1
    ELSE IF cur < prev THEN prev - 1
    ELSE prev

\* The tone mapping fragment shader (toneMap): Reinhard's operator with
\* middleGrey 1 and a large maxLuminance, lumScaled = lumPixel / lumAvg and
\* the result lumScaled / (1 + lumScaled) * c = c * c / (lumAvg + c).
toneMap(c, lumAvg) == IF c = 0 THEN 0 ELSE (c * c) \div (lumAvg + c)

\* ToneMappingMaterial.uniforms.averageLuminance, used when not adaptive.
AverageLuminance == 1

\* MeshBasicMaterial({ color: 0x7fffff }) drawn by initialise: mid grey.
InitialLuminance == 1

\* The scene depth the depth producer stage writes into the shared depth
\* buffer.
SceneDepth == MaxLevel

(* ------------------------------ effects ------------------------------- *)

\* The effect objects the host constructs.  "bokeh" and "smaa" stand for two
\* effects that carry the convolution attribute.
EffectIds == {"noise", "depth", "outline", "outline2", "bokeh", "smaa"}

\* EffectAttribute bits.
AttrDepth == "DEPTH"

AttrConvolution == "CONVOLUTION"

\* The attributes handed to the Effect constructor.
NoiseEffectAttributes == {}

\* A DepthEffect that declares no attribute.
DepthEffectAttributesNone == {}

\* A DepthEffect that declares the convolution attribute instead.
DepthEffectAttributesConvolution == {AttrConvolution}

DepthEffectAttributes == {AttrDepth}

OutlineEffectAttributes == {}

ConvolutionEffectAttributes == {AttrConvolution}

getAttributes(e) ==
    CASE e = "noise" -> NoiseEffectAttributes
      [] e = "depth" -> DepthEffectAttributes
      [] e \in {"outline", "outline2"} -> OutlineEffectAttributes
      [] OTHER -> ConvolutionEffectAttributes

\* The uniforms an effect declares (the uniforms option of its constructor).
OutlineEffectUniforms ==
    {"maskTexture", "edgeTexture", "edgeStrength", "visibleEdgeColor",
     "hiddenEdgeColor", "pulse", "patternScale", "patternTexture"}

DeclaredUniforms(e) ==
    IF e \in {"outline", "outline2"} THEN OutlineEffectUniforms ELSE {}

\* Whether the fragment shader of an effect samples the shared depth buffer.
SamplesDepth(e) == e = "depth"

\* Textures a host may hand to OutlineEffect.setPatternTexture.
Textures == {"null", "srgb"}

\* getTextureDecoding(texture, isWebGL2): the decoding expression for a
\* texture, "texel" when there is none.
getTextureDecoding(texture) ==
    IF texture = "srgb" THEN "sRGBToLinear(texel)" ELSE "texel"

\* A defines map is a set of <<name, value>> pairs with unique names.
DefinesHas(d, name) == \E kv \in d : kv[1] = name

DefinesSet(d, name, value) == {kv \in d : kv[1] # name} \cup {<<name, value>>}

DefinesDelete(d, name) == {kv \in d : kv[1] # name}

\* Math.cos(time * pulseSpeed * 10.0) * 0.375 + 0.625, identified with its
\* argument: 0 stands for the value 1.0.
PulseValue(time, pulseSpeed) == time * pulseSpeed

(* ------------------------------- state -------------------------------- *)

VARIABLES
    objects,         \* the passes and effects the host has constructed
    passes,          \* scheduler: the ordered pass list
    enabled,         \* Pass.enabled, per pass that is not disposed
    renderToScreen,  \* Pass.renderToScreen ("writes directly to display"), likewise
    initialized,     \* the passes initialize() has been called on
    disposed,        \* the passes, effects and the scheduler that were disposed
    releases,        \* per GPU resource, how often it was released
    buf,             \* content of the scheduler's two colour buffers
    screen,          \* content of the output surface
    depthBuf,        \* content of the shared depth buffer
    tone,            \* ToneMappingPass: adaptive flag and luminance targets
    bloom,           \* BloomPass: renderTargetX and renderTargetY
    fx,              \* EffectPass: effects, attributes, compiled program
    defines,         \* Effect.defines, per effect
    changed,         \* the change marker of each effect (setChanged)
    outline,         \* OutlineEffect: time, pulseSpeed, selection size, renderer,
                     \* the passes it owns that were initialized and rendered
    uniforms,        \* OutlineEffect's uniform cells
    uniforms2,       \* the uniform cells of the host's second OutlineEffect
    blendMode,       \* Effect.blendMode, per effect: blend function and opacity
    driver,          \* whether the graphics driver accepts the next program
    sizes,           \* the sizes: the resolution of the outline effect, the
                     \* render targets of the passes, the setSize calls the
                     \* passes received
    pending,         \* changes of members' defines by their setters and of
                     \* the membership since the last frame of the EffectPass
    sel,             \* the Selection: members, layer, exclusive flag, and
                     \* the layers of the scene's objects
    last,            \* a record of the last operation
    raised           \* the error the last operation raised, "none" if none

vars == <<objects, passes, enabled, renderToScreen, initialized, disposed,
          releases, buf, screen, depthBuf, tone, bloom, fx, defines, changed,
          outline, uniforms, uniforms2, blendMode, driver, sizes, pending, sel,
          last, raised>>

schedVars == <<passes, enabled, renderToScreen>>

lifeVars == <<initialized, disposed, releases>>

gpuVars == <<buf, screen, depthBuf, tone, bloom>>

effectVars == <<defines, changed, outline, uniforms, uniforms2, blendMode>>

BufferNames == {"inputBuffer", "outputBuffer"}

\* The record of an operation that is neither a render nor a dispose call.
Other == [op |-> "other"]

(* ----------------------------- sequences ------------------------------ *)

Range(s) == {s[i] : i \in 1 .. Len(s)}

IndexOf(s, x) == CHOOSE i \in 1 .. Len(s) : s[i] = x

\* An insertion that ignores the index.
InsertAtEnd(s, i, x) == Append(s, x)

InsertAt(s, i, x) == SubSeq(s, 1, i - 1) \o <<x>> \o SubSeq(s, i, Len(s))

RemoveAt(s, i) == SubSeq(s, 1, i - 1) \o SubSeq(s, i + 1, Len(s))

Remove(s, x) == IF x \in Range(s) THEN RemoveAt(s, IndexOf(s, x)) ELSE s

\* The sequences of distinct elements of S of length at most n.
DistinctSeqs(S, n) ==
    {q \in UNION {[1 .. k -> S] : k \in 0 .. n} :
        \A i, j \in 1 .. Len(q) : i # j => q[i] # q[j]}

(* --------------------------- JavaScript values ------------------------ *)

JsBoolean(b) == [type |-> "boolean", val |-> b]

JsFunction(name) == [type |-> "function", val |-> name]

\* The strict equality operator ===.
StrictEquals(a, b) == a.type = b.type /\ a.val = b.val

(* ------------------------ effects: the setters ------------------------ *)

\* The mutable state of the effects, as one record.
EffectState ==
    [defines |-> defines, changed |-> changed, outline |-> outline,
     uniforms |-> uniforms, uniforms2 |-> uniforms2, blendMode |-> blendMode]

\* Effect.setChanged(): marks the effect as changed.
setChanged(E, e) == [E EXCEPT !.changed[e] = TRUE]

\* The listener OutlineEffect registers for the change event of its blend
\* mode: the ALPHA define follows the blend function, and the effect is
\* marked as changed.
OutlineEffectBlendModeChange(E, e) ==
    setChanged(
        [E EXCEPT !.defines[e] =
            IF E.blendMode[e].blendFunction = "alpha"
            THEN DefinesSet(@, "ALPHA", "1")
            ELSE DefinesDelete(@, "ALPHA")],
        e)

\* BlendMode dispatches its change event: the listeners of effect e run.
BlendModeChange(E, e) ==
    IF e \in {"outline", "outline2"} THEN OutlineEffectBlendModeChange(E, e) ELSE E

\* effect.blendMode.setBlendFunction(value): the function is stored and the
\* change event is dispatched.
BlendModeSetBlendFunction(E, e, value) ==
    BlendModeChange([E EXCEPT !.blendMode[e].blendFunction = value], e)

\* effect.blendMode.opacity.value = value: a write to a uniform cell.
BlendModeSetOpacity(E, e, value) ==
    [E EXCEPT !.blendMode[e].opacity = value]

\* get NoiseEffect.premultiply
NoiseEffectPremultiply(E) == JsBoolean(DefinesHas(E.defines["noise"], "PREMULTIPLY"))

\* A premultiply setter that writes the define and leaves out setChanged().
NoiseEffectSetPremultipliedSilent(E, value) ==
    IF ~StrictEquals(NoiseEffectPremultiply(E), JsBoolean(value))
    THEN [E EXCEPT !.defines["noise"] =
             IF value THEN DefinesSet(@, "PREMULTIPLY", "1")
             ELSE DefinesDelete(@, "PREMULTIPLY")]
    ELSE E

\* set NoiseEffect.premultiply, setPremultiplied(value)
NoiseEffectSetPremultiplied(E, value) ==
    IF ~StrictEquals(NoiseEffectPremultiply(E), JsBoolean(value))
    THEN setChanged(
             [E EXCEPT !.defines["noise"] =
                 IF value THEN DefinesSet(@, "PREMULTIPLY", "1")
                 ELSE DefinesDelete(@, "PREMULTIPLY")],
             "noise")
    ELSE E

\* DepthEffect.isInverted()
DepthEffectIsInverted(E) == DefinesHas(E.defines["depth"], "INVERTED")

\* get DepthEffect.inverted: returns this.isInverted, the method itself.
DepthEffectInverted(E) == JsFunction("isInverted")

\* DepthEffect.setInverted(value)
DepthEffectSetInverted(E, value) ==
    IF ~StrictEquals(DepthEffectInverted(E), JsBoolean(value))
    THEN setChanged(
             [E EXCEPT !.defines["depth"] =
                 IF value THEN DefinesSet(@, "INVERTED", "1")
                 ELSE DefinesDelete(@, "INVERTED")],
             "depth")
    ELSE E

\* get OutlineEffect.xRay, isXRayEnabled()
OutlineEffectXRay(E) == JsBoolean(DefinesHas(E.defines["outline"], "X_RAY"))

\* An xRay setter that writes the define and leaves out setChanged().
OutlineEffectSetXRayEnabledSilent(E, value) ==
    IF ~StrictEquals(OutlineEffectXRay(E), JsBoolean(value))
    THEN [E EXCEPT !.defines["outline"] =
             IF value THEN DefinesSet(@, "X_RAY", "1")
             ELSE DefinesDelete(@, "X_RAY")]
    ELSE E

\* set OutlineEffect.xRay, setXRayEnabled(value)
OutlineEffectSetXRayEnabled(E, value) ==
    IF ~StrictEquals(OutlineEffectXRay(E), JsBoolean(value))
    THEN setChanged(
             [E EXCEPT !.defines["outline"] =
                 IF value THEN DefinesSet(@, "X_RAY", "1")
                 ELSE DefinesDelete(@, "X_RAY")],
             "outline")
    ELSE E

\* OutlineEffect.setPatternTexture(texture)
OutlineEffectSetPatternTexture(E, texture) ==
    LET E1 == IF texture # "null"
              THEN [E EXCEPT !.defines["outline"] = DefinesSet(@, "USE_PATTERN", "1"),
                             !.uniforms.patternTexture = texture,
                             !.outline.vertexShader = "outline.vert"]
              ELSE [E EXCEPT !.defines["outline"] = DefinesDelete(@, "USE_PATTERN"),
                             !.uniforms.patternTexture = "null",
                             !.outline.vertexShader = "null"]
        E2 == IF E1.outline.renderer # "null"
              THEN [E1 EXCEPT !.defines["outline"] =
                       DefinesSet(@, "texelToLinear(texel)", getTextureDecoding(texture))]
              ELSE E1
    IN  setChanged(E2, "outline")

\* The buffer precision the scheduler hands to initialize: the type of its
\* buffers.
FrameBufferType == "UnsignedByteType"

\* OutlineEffect.initialize(renderer, alpha, frameBufferType): writes the
\* decoding define and initializes the blur pass and, when it is given a
\* buffer type, the depth, mask and outline passes.
OutlineEffectInitialize(E) ==
    [E EXCEPT !.defines["outline"] =
                  DefinesSet(@, "texelToLinear(texel)",
                             getTextureDecoding(E.uniforms.patternTexture)),
              !.outline.subPassesInitialized = TRUE,
              !.outline.subInitialized =
                  @ \cup {"blurPass"} \cup
                  (IF FrameBufferType # "undefined"
                   THEN {"depthPass", "maskPass", "outlinePass"} ELSE {})]

\* OutlineEffect.setPulseSpeed(value)
OutlineEffectSetPulseSpeed(E, value) == [E EXCEPT !.outline.pulseSpeed = value]

\* An update that keeps the pulse in a define instead of a uniform cell.
OutlineEffectUpdatePulseDefine(E, deltaTime) ==
    IF E.outline.selectionSize > 0
    THEN setChanged(
             [E EXCEPT !.defines["outline"] =
                           DefinesSet(@, "PULSE",
                                      IF E.outline.pulseSpeed > 0
                                      THEN PulseValue(E.outline.time, E.outline.pulseSpeed)
                                      ELSE 0),
                       !.outline.time = @ + deltaTime,
                       !.outline.maskRendered = TRUE],
             "outline")
    ELSE IF E.outline.time > 0
    THEN [E EXCEPT !.outline.time = 0, !.outline.maskRendered = FALSE]
    ELSE E

\* OutlineEffect.update(renderer, inputBuffer, deltaTime)
OutlineEffectUpdate(E, deltaTime) ==
    IF E.outline.selectionSize > 0
    THEN [E EXCEPT !.uniforms.pulse =
                       IF E.outline.pulseSpeed > 0
                       THEN PulseValue(E.outline.time, E.outline.pulseSpeed)
                       ELSE 0,
                   !.outline.time = @ + deltaTime,
                   !.outline.maskRendered = TRUE,
                   !.outline.subRendered =
                       @ \cup {"depthPass", "maskPass", "outlinePass"} \cup
                       (IF E.outline.blur THEN {"blurPass"} ELSE {})]
    ELSE IF E.outline.time > 0
    THEN [E EXCEPT !.outline.time = 0, !.outline.maskRendered = FALSE,
                   !.outline.subRendered = @ \cup {"clearPass"}]
    ELSE E

\* Effect.update of an effect: only OutlineEffect overrides it.
EffectUpdate(E, e, deltaTime) ==
    IF e = "outline" THEN OutlineEffectUpdate(E, deltaTime) ELSE E

\* Effect.initialize of an effect: only OutlineEffect overrides it.  The
\* owning pass attaches the renderer to the effect.
EffectInitialize(E, e) ==
    IF e = "outline"
    THEN OutlineEffectInitialize([E EXCEPT !.outline.renderer = "renderer"])
    ELSE E

(* ----------------------------- EffectPass ----------------------------- *)

\* The union of the attributes of a list of effects.
AggregateAttributes(effects) ==
    UNION {getAttributes(effects[i]) : i \in 1 .. Len(effects)}

\* The cache key of the fused program: the ordered effect identities with
\* their current defines and attributes.
CacheKey(effects, E) ==
    [i \in 1 .. Len(effects) |->
        [effect |-> effects[i], defines |-> E.defines[effects[i]],
         attributes |-> getAttributes(effects[i])]]

KeyEffects(key) == [i \in 1 .. Len(key) |-> key[i].effect]

\* A check that accepts every list of effects.
ConvolutionConflictNever(effects) == FALSE

\* Two effects of the list both carry the convolution attribute.
ConvolutionConflict(effects) ==
    \E i, j \in 1 .. Len(effects) :
        /\ i # j
        /\ AttrConvolution \in getAttributes(effects[i])
        /\ AttrConvolution \in getAttributes(effects[j])

\* The pass polls its members: the membership differs from the compiled
\* one, or a member is marked as changed.
EffectPassPolledDirty(F, E) ==
    \/ F.effects # KeyEffects(F.key)
    \/ \E i \in 1 .. Len(F.effects) : E.changed[F.effects[i]]

\* Whether the next render has to compile: never compiled, or the cache key
\* differs from the key of the last successful compile.
EffectPassNeedsCompile(F, E) ==
    \/ ~F.compiled
    \/ EffectPassPolledDirty(F, E) /\ CacheKey(F.effects, E) # F.key

\* A failed recompile that leaves the rejected program in place.
EffectPassCompileFailedPartial(F, E) ==
    [F EXCEPT !.key = CacheKey(F.effects, E), !.compiled = FALSE]

\* EffectPass.recompile() that fails: the pass stays on its last good
\* program.
EffectPassCompileFailed(F, E) == F

\* A fused name that is the declared name: no renaming.
FusedNameShared(i, name) == <<0, name>>

\* The name an entry of member i has in the fused namespace: the declared
\* name, prefixed with the index of the member.
FusedName(i, name) == <<i, name>>

\* The fused uniform map: the members in array order put their uniforms
\* under their fused names; an entry refers to the cell of the effect.
RECURSIVE FuseUniforms(_, _, _)
FuseUniforms(effects, i, map) ==
    IF i > Len(effects) THEN map
    ELSE LET names == DeclaredUniforms(effects[i])
             entries == [x \in {FusedName(i, n) : n \in names} |->
                            [effect |-> effects[i], cell |-> x[2]]]
         IN  FuseUniforms(effects, i + 1, entries @@ map)

\* The fused define map: the members in array order put their defines under
\* their fused names.
RECURSIVE FuseDefines(_, _, _, _)
FuseDefines(effects, i, map, E) ==
    IF i > Len(effects) THEN map
    ELSE LET names == {kv[1] : kv \in E.defines[effects[i]]}
             entries == [x \in {FusedName(i, n) : n \in names} |->
                            [effect |-> effects[i], define |-> x[2]]]
         IN  FuseDefines(effects, i + 1, entries @@ map, E)

\* The value of the cell a fused uniform refers to.
CellValue(E, ref) ==
    LET cells == IF ref.effect = "outline" THEN E.uniforms ELSE E.uniforms2
    IN  IF ref.cell \in DOMAIN cells THEN cells[ref.cell] ELSE "unset"

\* What the code of member i reads from the uniform it declared as name.
ReadUniform(F, E, i, name) == CellValue(E, F.uniforms[FusedName(i, name)])

\* EffectPass.recompile(): builds the fused program from the current
\* members and acknowledges their changes.
EffectPassRecompile(F, E) ==
    [fx |-> [F EXCEPT !.compiled = TRUE,
                      !.key = CacheKey(F.effects, E),
                      !.uniforms = FuseUniforms(F.effects, 1, <<>>),
                      !.defines = FuseDefines(F.effects, 1, <<>>, E),
                      !.attributes = AggregateAttributes(F.effects),
                      !.version = @ + 1],
     E |-> [E EXCEPT !.changed =
               [e \in EffectIds |-> IF e \in Range(F.effects) THEN FALSE ELSE @[e]]]]

\* The effects of the list are updated in array order.
RECURSIVE UpdateEffects(_, _, _, _)
UpdateEffects(effects, i, E, deltaTime) ==
    IF i > Len(effects) THEN E
    ELSE UpdateEffects(effects, i + 1, EffectUpdate(E, effects[i], deltaTime), deltaTime)

\* The effects of the list are initialized in array order.
RECURSIVE InitializeEffects(_, _, _)
InitializeEffects(effects, i, E) ==
    IF i > Len(effects) THEN E
    ELSE InitializeEffects(effects, i + 1, EffectInitialize(E, effects[i]))

\* BlendFunction.SCREEN and BlendFunction.NORMAL at opacity 1.
BlendScreen(x, y) == Min(MaxLevel, x + y - ((x * y) \div MaxLevel))

BlendNormal(x, y) == y

BlendAdd(x, y) == Min(MaxLevel, x + y)

\* A blend function that leaves the base colour.
BlendSkip(x, y) == x

BlendMultiply(x, y) == (x * y) \div MaxLevel

\* The blend functions of the model, of the closed set of BlendFunction.
BlendFunctions == {"normal", "add", "multiply", "screen", "alpha", "skip"}

\* The opacities of the model: 0 and 1.
Opacities == {0, 1}

\* The blend function of src/passes/bloom.js, on levels: z is white where
\* x is white, otherwise 1 - min(1, (1 - x) / y), where a division by zero
\* gives infinity, which min(1, .) cuts to 1.
BlendColorBurn(x, y) ==
    IF x >= MaxLevel THEN MaxLevel
    ELSE IF y = 0 THEN 0
    ELSE MaxLevel - Min(MaxLevel, ((MaxLevel - x) * MaxLevel) \div y)

\* Opacities are counted in units of 1 / OpacityUnit.
OpacityUnit == 2

MixReversed(x, z, a) == z + ((x - z) * a) \div OpacityUnit

\* mix(x, z, opacity): x * (1 - opacity) + z * opacity, on levels.
Mix(x, z, a) == x + ((z - x) * a) \div OpacityUnit

\* The result of the formula of a blend function.
BlendFormula(f, x, y) ==
    CASE f = "normal" -> BlendNormal(x, y)
      [] f = "add" -> BlendAdd(x, y)
      [] f = "multiply" -> BlendMultiply(x, y)
      [] f = "screen" -> BlendScreen(x, y)
      [] f = "colorBurn" -> BlendColorBurn(x, y)
      [] f = "alpha" -> y
      [] OTHER -> x

\* blend(x, y, opacity) of the blend function f, with the opacity a in
\* units: mix(x, z, opacity) with the result z of the formula.  The colours
\* of the model are opaque: "alpha" leaves the blended colour.
BlendModeCombine(f, x, y, a) == Mix(x, BlendFormula(f, x, y), a)

\* BlendMode: combine(base, blended, opacity) with the blend function and
\* the opacity, 0 or 1, of the mode.
Combination(mode, x, y) ==
    BlendModeCombine(mode.blendFunction, x, y, mode.opacity * OpacityUnit)

\* The colour the fragment shader of an effect computes from the base
\* colour (mainImage).  k is the effect's entry of the compiled key: the
\* program was built from those defines.
EffectTransform(k, base, depth, u) ==
    CASE k.effect = "noise" ->
            IF DefinesHas(k.defines, "PREMULTIPLY") THEN base ELSE 1
      [] k.effect = "depth" ->
            IF DefinesHas(k.defines, "INVERTED") THEN MaxLevel - depth ELSE depth
      [] k.effect = "outline" ->
            IF DefinesHas(k.defines, "X_RAY")
            THEN Min(MaxLevel, u.edgeStrength + 1)
            ELSE u.edgeStrength
      [] k.effect = "outline2" ->
            IF DefinesHas(k.defines, "X_RAY")
            THEN Min(MaxLevel, u.second.edgeStrength + 1)
            ELSE u.second.edgeStrength
      [] OTHER -> Convolve(base)

\* The colour an effect of the compiled program leaves: its own colour
\* blended over the base colour with the effect's blend mode, a part of
\* the per-frame uniform state u.
EffectColor(k, base, depth, u) ==
    Combination(u.blendMode[k.effect], base, EffectTransform(k, base, depth, u))

\* A fused program that evaluates the effects from the last to the first.
RECURSIVE FusedColorReversed(_, _, _, _, _)
FusedColorReversed(key, i, base, depth, u) ==
    IF i > Len(key) THEN base
    ELSE EffectColor(key[i], FusedColorReversed(key, i + 1, base, depth, u),
                     depth, u)

\* The fused program: effect i's blended output is the base colour of
\* effect i + 1.
RECURSIVE FusedColor(_, _, _, _, _)
FusedColor(key, i, base, depth, u) ==
    IF i > Len(key) THEN base
    ELSE FusedColor(key, i + 1, EffectColor(key[i], base, depth, u), depth, u)

(* --------------------------- pass rendering --------------------------- *)

\* A render call works on a record R: the graphics state (buf, screen,
\* depthBuf, tone, bloom), the EffectPass fx and the effect state E, the
\* buffers that currently play the read and the write role, and the log of
\* the frame.  A pass render returns the new R and what the call did.

Draw(mat, src, dst) == [mat |-> mat, src |-> src, dst |-> dst]

\* A final draw that ignores renderToScreen.
BloomPassOutputReadBuffer(thisRenderToScreen, readBuffer) == readBuffer

\* BloomPass.render, the final draw: the combine material is drawn on the
\* screen when renderToScreen is set, else the blur is copied, blending, over
\* the read buffer.
BloomPassOutput(thisRenderToScreen, readBuffer) ==
    IF thisRenderToScreen THEN "screen" ELSE readBuffer

\* BloomPass.render(renderer, readBuffer)
BloomPassRender(R, thisRenderToScreen) ==
    LET input == R.buf[R.read]
        x1 == BrightPass(input)
        y1 == Convolve(x1)
        x2 == Convolve(y1)
        y2 == Convolve(x2)
        x3 == Convolve(y2)
        y3 == Convolve(x3)
        blur == <<Draw("luminosity", {R.read}, "bloom.renderTargetX"),
                  Draw("convolution", {"bloom.renderTargetX"}, "bloom.renderTargetY"),
                  Draw("convolution", {"bloom.renderTargetY"}, "bloom.renderTargetX"),
                  Draw("convolution", {"bloom.renderTargetX"}, "bloom.renderTargetY"),
                  Draw("convolution", {"bloom.renderTargetY"}, "bloom.renderTargetX"),
                  Draw("convolution", {"bloom.renderTargetX"}, "bloom.renderTargetY")>>
        target == BloomPassOutput(thisRenderToScreen, R.read)
    IN  IF target = "screen"
        THEN [R |-> [R EXCEPT !.bloom = [x |-> x3, y |-> y3],
                              !.screen = Combine(input, y3)],
              draws |-> Append(blur, Draw("combine", {R.read, "bloom.renderTargetY"},
                                          target)),
              output |-> target]
        ELSE [R |-> [R EXCEPT !.bloom = [x |-> x3, y |-> y3],
                              !.buf[target] = AdditiveBlend(input, y3)],
              draws |-> Append(blur, Draw("copy", {"bloom.renderTargetY"}, target)),
              output |-> target]

\* get ToneMappingPass.adaptive
ToneMappingPassAdaptive(t) == t.adaptive

\* A final draw that ignores renderToScreen.
ToneMappingPassOutputBuffer(thisRenderToScreen, writeBuffer) == writeBuffer

\* ToneMappingPass.render, the final draw: on the screen when renderToScreen
\* is set, else into the write buffer.
ToneMappingPassOutput(thisRenderToScreen, writeBuffer) ==
    IF thisRenderToScreen THEN "screen" ELSE writeBuffer

\* ToneMappingPass.render(renderer, readBuffer, writeBuffer, delta)
ToneMappingPassRender(R, thisRenderToScreen, delta) ==
    LET input == R.buf[R.read]
        t == R.tone
        lum == Luminance(input)
        adapted == AdaptLuminance(t.previous, lum, delta)
        t1 == IF ToneMappingPassAdaptive(t)
              THEN [t EXCEPT !.luminosity = lum, !.adapted = adapted,
                             !.previous = adapted]
              ELSE t
        adaptDraws ==
            IF ToneMappingPassAdaptive(t)
            THEN <<Draw("luminosity", {R.read}, "tone.renderTargetLuminosity"),
                   Draw("adaptiveLuminosity",
                        {"tone.renderTargetPrevious", "tone.renderTargetLuminosity"},
                        "tone.renderTargetAdapted"),
                   Draw("copy", {"tone.renderTargetAdapted"},
                        "tone.renderTargetPrevious")>>
            ELSE <<>>
        lumAvg == IF ToneMappingPassAdaptive(t) THEN t1.adapted ELSE AverageLuminance
        out == toneMap(input, lumAvg)
        target == ToneMappingPassOutput(thisRenderToScreen, R.write)
    IN  [R |-> IF target = "screen"
               THEN [R EXCEPT !.tone = t1, !.screen = out]
               ELSE [R EXCEPT !.tone = t1, !.buf[target] = out],
         draws |-> Append(adaptDraws, Draw("toneMapping", {R.read}, target)),
         output |-> target]

\* ToneMappingPass.initialise(renderer): draws mid grey into the previous
\* luminance target.
ToneMappingPassInitialise(t) == [t EXCEPT !.previous = InitialLuminance]

\* The fragment shader of the raw shader pass: it samples the input buffer
\* and the shared depth buffer.
ShaderColor(c, depth) == (c + depth) % (MaxLevel + 1)

\* ShaderPass.render(renderer, inputBuffer, outputBuffer, deltaTime)
ShaderPassRender(R, thisRenderToScreen) ==
    LET out == ShaderColor(R.buf[R.read], R.depthBuf)
    IN  IF thisRenderToScreen
        THEN [R |-> [R EXCEPT !.screen = out],
              draws |-> <<Draw("shader", {R.read, "depthBuffer"}, "screen")>>,
              output |-> "screen"]
        ELSE [R |-> [R EXCEPT !.buf[R.write] = out],
              draws |-> <<Draw("shader", {R.read, "depthBuffer"}, R.write)>>,
              output |-> R.write]

\* The per-frame uniform state the pass binds: the uniform cells and the
\* blend modes of the effects.
FrameUniforms(E) ==
    [blendMode |-> E.blendMode, second |-> E.uniforms2] @@ E.uniforms

\* EffectPass.render(renderer, inputBuffer, outputBuffer, deltaTime):
\* recompiles lazily, updates the effects, binds the per-frame uniforms and
\* issues one full-screen draw.
EffectPassRender(R, thisRenderToScreen, deltaTime) ==
    LET need == EffectPassNeedsCompile(R.fx, R.E)
        failed == need /\ R.driver = "rejects"
        c == IF failed THEN [fx |-> EffectPassCompileFailed(R.fx, R.E), E |-> R.E]
             ELSE IF need THEN EffectPassRecompile(R.fx, R.E)
             ELSE [fx |-> R.fx, E |-> R.E]
        \* without a last good program the pass disables itself and draws
        \* nothing
        skip == failed /\ ~R.fx.compiled
        E1 == UpdateEffects(c.fx.effects, 1, c.E, deltaTime)
        out == FusedColor(c.fx.key, 1, R.buf[R.read], R.depthBuf, FrameUniforms(E1))
        src == {R.read} \cup
               (IF \E i \in 1 .. Len(c.fx.key) : SamplesDepth(c.fx.key[i].effect)
                THEN {"depthBuffer"} ELSE {})
        target == IF thisRenderToScreen THEN "screen" ELSE R.write
        R1 == [R EXCEPT !.fx = c.fx, !.E = E1]
    IN  IF skip
        THEN [R |-> [R EXCEPT !.fx = c.fx, !.failed = @ \cup {"fx"},
                              !.disabled = @ \cup {"fx"}],
              draws |-> <<>>,
              output |-> "none"]
        ELSE [R |-> IF thisRenderToScreen
                    THEN [R1 EXCEPT !.screen = out,
                                    !.failed = IF failed THEN @ \cup {"fx"} ELSE @]
                    ELSE [R1 EXCEPT !.buf[R.write] = out,
                                    !.failed = IF failed THEN @ \cup {"fx"} ELSE @],
              draws |-> <<[mat |-> "fused", src |-> src, dst |-> target,
                           program |-> c.fx.key,
                           current |-> CacheKey(c.fx.effects, E1),
                           uniforms |-> E1.uniforms,
                           version |-> c.fx.version,
                           complete |-> c.fx.compiled]>>,
              output |-> target]

\* Pass.render of the pass p.
PassRender(p, R, thisRenderToScreen, deltaTime) ==
    CASE p = "tone" -> ToneMappingPassRender(R, thisRenderToScreen, deltaTime)
      [] p = "bloom" -> BloomPassRender(R, thisRenderToScreen)
      [] p = "fx" -> EffectPassRender(R, thisRenderToScreen, deltaTime)
      [] OTHER -> ShaderPassRender(R, thisRenderToScreen)

\* The sizes of the render targets after BloomPass.render: the pass binds
\* renderTargetX and renderTargetY and draws into them, it sizes neither.
BloomPassRenderSizesToFrame(S) ==
    [S EXCEPT !.bloomX = S.composer, !.bloomY = S.composer]

BloomPassRenderSizes(S) == S

\* Likewise after ToneMappingPass.render, which draws into its three
\* luminance targets.
ToneMappingPassRenderSizes(S) == S

\* Likewise after OutlineEffect.update, which renders its depth, mask,
\* outline and blur passes into renderTargetMask and renderTargetOutline.
OutlineEffectUpdateSizes(S) == S

\* The sizes after Pass.render of the pass p; the EffectPass updates its
\* effects.
PassRenderSizes(p, S) ==
    CASE p = "tone" -> ToneMappingPassRenderSizes(S)
      [] p = "bloom" -> BloomPassRenderSizes(S)
      [] p = "fx" -> OutlineEffectUpdateSizes(S)
      [] OTHER -> S

\* The sizes after the render calls of a frame, in the order of its log.
RECURSIVE RenderSizes(_, _, _)
RenderSizes(log, k, S) ==
    IF k > Len(log) THEN S
    ELSE RenderSizes(log, k + 1, PassRenderSizes(log[k].pass, S))

(* ----------------------------- scheduler ------------------------------ *)

\* Whether a pass requires the shared depth buffer: the raw shader pass
\* does so directly, an EffectPass through its aggregated attributes.
RequiresDepth(p, F) ==
    \/ p = "shader"
    \/ p = "fx" /\ AttrDepth \in F.attributes

\* The enabled passes of the list that require the shared depth buffer.
DepthConsumers(list, en, F) ==
    {i \in 1 .. Len(list) : en[list[i]] /\ RequiresDepth(list[i], F)}

\* How often the depth producer stage runs in a frame.
DepthStageRuns(list, en, F) ==
    IF DepthConsumers(list, en, F) # {} THEN 1 ELSE 0

\* The pass at index i is terminal: it is marked as writing to the display,
\* or no enabled pass follows it.
IsTerminal(list, en, rts, i) ==
    \/ rts[list[i]]
    \/ \A j \in (i + 1) .. Len(list) : ~en[list[j]]

\* The roles are swapped after a pass that produces new colour data and is
\* not terminal.
SwapsAfter(p, terminal) == needsSwap(p) /\ ~terminal

\* A scheduler that hands every pass of the list a render call.
RunsAlways(list, en, i) == TRUE

\* Whether the scheduler hands the pass at index i a render call.
Runs(list, en, i) == en[list[i]]

\* The passes of the list from index i on, in list order.
RECURSIVE RenderPasses(_, _, _, _, _, _)
RenderPasses(list, en, rts, i, R, deltaTime) ==
    IF i > Len(list) THEN R
    ELSE IF ~Runs(list, en, i)
    THEN RenderPasses(list, en, rts, i + 1, R, deltaTime)
    ELSE LET p == list[i]
             terminal == IsTerminal(list, en, rts, i)
             call == PassRender(p, R, terminal, deltaTime)
             swap == SwapsAfter(p, terminal)
             entry == [pass |-> p, read |-> R.read, write |-> R.write,
                       terminal |-> terminal, draws |-> call.draws,
                       output |-> call.output, swapped |-> swap]
             R1 == [call.R EXCEPT !.read = IF swap THEN R.write ELSE R.read,
                                  !.write = IF swap THEN R.read ELSE R.write,
                                  !.log = Append(@, entry)]
         IN  RenderPasses(list, en, rts, i + 1, R1, deltaTime)

\* The render state a frame starts from.
FrameStart(G, F, E) ==
    [buf |-> G.buf, screen |-> G.screen, depthBuf |-> G.depthBuf,
     tone |-> G.tone, bloom |-> G.bloom, fx |-> F, E |-> E,
     read |-> "inputBuffer", write |-> "outputBuffer",
     log |-> <<>>, depthWrites |-> <<>>,
     driver |-> driver, failed |-> {}, disabled |-> {}]

\* scheduler.render(deltaTime) over a pass list: the depth producer stage,
\* then the enabled passes in list order.
ComposerRender(list, en, rts, R0, deltaTime) ==
    LET n == DepthStageRuns(list, en, R0.fx)
        R1 == IF n > 0
              THEN [R0 EXCEPT !.depthBuf = SceneDepth,
                              !.depthWrites = [k \in 1 .. n |-> "depthProducer"]]
              ELSE R0
    IN  RenderPasses(list, en, rts, 1, R1, deltaTime)

GraphicsState ==
    [buf |-> buf, screen |-> screen, depthBuf |-> depthBuf, tone |-> tone,
     bloom |-> bloom]

(* ----------------------------- lifecycle ------------------------------ *)

\* dispose() that releases what the object owns whenever it is called.
DisposeAgain(L, S) ==
    [disposed |-> L.disposed \cup S,
     releases |-> [r \in Resources |->
                     L.releases[r] +
                     Cardinality({o \in S : r \in OwnedResources(o)})]]

\* dispose() of every object of the set S: an object that is not disposed
\* yet releases the resources it owns, a disposed one does nothing.
Dispose(L, S) ==
    [disposed |-> L.disposed \cup S,
     releases |-> [r \in Resources |->
                     L.releases[r] +
                     Cardinality({o \in S \ L.disposed : r \in OwnedResources(o)})]]

\* The objects a pass disposes with itself: an EffectPass disposes its
\* effects.
DisposedWith(p, F) == {p} \cup (IF p = "fx" THEN Range(F.effects) ELSE {})

Lifecycle == [disposed |-> disposed, releases |-> releases]

\* The fields of a disposed pass are no longer part of the state.
Live(flags, L) == [p \in (DOMAIN flags) \ L.disposed |-> flags[p]]

\* The lifecycle L and the flags of the passes that are still alive.
SetLifecycle(L) ==
    /\ disposed' = L.disposed
    /\ releases' = L.releases
    /\ enabled' = Live(enabled, L)
    /\ renderToScreen' = Live(renderToScreen, L)

(* ------------------------------ actions ------------------------------- *)

SetEffectState(E) ==
    /\ defines' = E.defines
    /\ changed' = E.changed
    /\ outline' = E.outline
    /\ uniforms' = E.uniforms
    /\ uniforms2' = E.uniforms2
    /\ blendMode' = E.blendMode

SetEffectStateInit(E) ==
    /\ defines = E.defines
    /\ changed = E.changed
    /\ outline = E.outline
    /\ uniforms = E.uniforms
    /\ uniforms2 = E.uniforms2
    /\ blendMode = E.blendMode

\* scheduler.addPass(pass, index): inserts the pass and initializes it, once.
AddPass(p, index) ==
    /\ "scheduler" \notin disposed
    /\ p \in objects /\ p \notin Range(passes) /\ p \notin disposed
    /\ index \in 1 .. (Len(passes) + 1)
    /\ passes' = InsertAt(passes, index, p)
    /\ initialized' = initialized \cup {p}
    /\ tone' = IF p = "tone" /\ p \notin initialized
               THEN ToneMappingPassInitialise(tone) ELSE tone
    /\ SetEffectState(IF p = "fx" /\ p \notin initialized
                      THEN InitializeEffects(fx.effects, 1, EffectState)
                      ELSE EffectState)
    /\ last' = Other
    /\ raised' = "none"
    /\ UNCHANGED <<objects, sizes, sel, enabled, renderToScreen, disposed, releases, buf,
                   screen, depthBuf, bloom, fx, pending, driver>>

\* scheduler.removePass(pass): removes the pass and releases its resources.
RemovePass(p) ==
    /\ "scheduler" \notin disposed
    /\ p \in Range(passes)
    /\ passes' = Remove(passes, p)
    /\ SetLifecycle(Dispose(Lifecycle, DisposedWith(p, fx)))
    /\ last' = Other
    /\ raised' = "none"
    /\ UNCHANGED <<objects, sizes, sel, initialized, gpuVars, fx, effectVars, pending, driver>>

\* pass.enabled = value, on a pass of the list
SetEnabled(p, value) ==
    /\ p \in Range(passes)
    /\ enabled' = [enabled EXCEPT ![p] = value]
    /\ last' = Other
    /\ raised' = "none"
    /\ UNCHANGED <<objects, sizes, sel, passes, renderToScreen, lifeVars, gpuVars, fx,
                   effectVars, pending, driver>>

\* pass.renderToScreen = value, on a pass of the list
SetRenderToScreen(p, value) ==
    /\ p \in Range(passes)
    /\ renderToScreen' = [renderToScreen EXCEPT ![p] = value]
    /\ last' = Other
    /\ raised' = "none"
    /\ UNCHANGED <<objects, sizes, sel, passes, enabled, lifeVars, gpuVars, fx, effectVars,
                   pending, driver>>

\* scheduler.render(deltaTime)
Render(deltaTime) ==
    /\ "scheduler" \notin disposed
    /\ \E R \in {ComposerRender(passes, enabled, renderToScreen,
                                 FrameStart(GraphicsState, fx, EffectState), deltaTime)} :
           /\ R.E.outline.time <= MaxTime
           /\ R.fx.version <= MaxVersion
           /\ buf' = R.buf
           /\ screen' = R.screen
           /\ depthBuf' = R.depthBuf
           /\ tone' = R.tone
           /\ bloom' = R.bloom
           /\ fx' = R.fx
           /\ SetEffectState(R.E)
           /\ last' = [op |-> "render", log |-> R.log,
                       depthWrites |-> R.depthWrites, read |-> R.read,
                       write |-> R.write, versionBefore |-> fx.version,
                       keyDiffers |-> (~fx.compiled
                                       \/ CacheKey(fx.effects, EffectState) # fx.key),
                       pending |-> pending, failed |-> R.failed]
           /\ pending' = IF \E k \in 1 .. Len(R.log) : R.log[k].pass = "fx"
                         THEN 0 ELSE pending
           /\ enabled' = [p \in DOMAIN enabled |-> enabled[p] /\ p \notin R.disabled]
           /\ raised' = IF R.failed # {} THEN "CompileError" ELSE "none"
           /\ sizes' = RenderSizes(R.log, 1, sizes)
    /\ UNCHANGED <<objects, sel, passes, renderToScreen, lifeVars, driver>>

\* pass.dispose(), on a pass that is not in the list
PassDispose(p) ==
    /\ p \in objects /\ p \notin Range(passes)
    /\ SetLifecycle(Dispose(Lifecycle, DisposedWith(p, fx)))
    /\ last' = [op |-> "dispose", target |-> p, again |-> p \in disposed]
    /\ raised' = "none"
    /\ UNCHANGED <<objects, sizes, sel, passes, initialized, gpuVars, fx, effectVars, pending, driver>>

\* scheduler.dispose(): disposes every pass of the list and the buffers,
\* and empties the list.
SchedulerDispose ==
    /\ LET owners == UNION {DisposedWith(passes[i], fx) : i \in 1 .. Len(passes)}
       IN  SetLifecycle(Dispose(Lifecycle, owners \cup {"scheduler"}))
    /\ passes' = <<>>
    /\ last' = [op |-> "dispose", target |-> "scheduler",
                again |-> "scheduler" \in disposed]
    /\ raised' = "none"
    /\ UNCHANGED <<objects, sizes, sel, initialized, gpuVars, fx, effectVars, pending, driver>>

\* The graphics driver starts to accept, or to reject, the programs it is
\* handed.
SetDriver(value) ==
    /\ driver' = value
    /\ last' = Other
    /\ raised' = "none"
    /\ UNCHANGED <<objects, sizes, sel, schedVars, lifeVars, gpuVars, fx, effectVars, pending>>

\* An EffectPass that recompiles as soon as an effect signals a change.
EffectPassOnChangeEager(F, E) ==
    IF EffectPassNeedsCompile(F, E) /\ F.version < MaxVersion
    THEN EffectPassRecompile(F, E).fx ELSE F

\* What the EffectPass F does when a setter or a change listener of an
\* effect has left the effect state E: nothing, the pass polls the change
\* markers in its next render call.
EffectPassOnChange(F, E) == F

\* An operation of the host on an effect: E is the effect state it leaves.
EffectOperation(E) ==
    /\ SetEffectState(E)
    /\ fx' = EffectPassOnChange(fx, E)
    /\ pending' = IF \E i \in 1 .. Len(fx.effects) :
                       E.defines[fx.effects[i]] # defines[fx.effects[i]]
                  THEN Min(MaxPending, pending + 1) ELSE pending
    /\ last' = Other
    /\ raised' = "none"
    /\ UNCHANGED <<objects, sizes, sel, schedVars, lifeVars, gpuVars, driver>>

\* noiseEffect.setPremultiplied(value)
SetPremultiplied(value) ==
    /\ "noise" \in objects
    /\ EffectOperation(NoiseEffectSetPremultiplied(EffectState, value))

\* depthEffect.setInverted(value)
SetInverted(value) ==
    /\ "depth" \in objects
    /\ EffectOperation(DepthEffectSetInverted(EffectState, value))

\* outlineEffect.setXRayEnabled(value)
SetXRayEnabled(value) ==
    /\ "outline" \in objects
    /\ EffectOperation(OutlineEffectSetXRayEnabled(EffectState, value))

\* outlineEffect.setPatternTexture(texture)
SetPatternTexture(texture) ==
    /\ "outline" \in objects
    /\ EffectOperation(OutlineEffectSetPatternTexture(EffectState, texture))

\* effect.blendMode.setBlendFunction(value)
SetBlendFunction(e, value) ==
    /\ e \in objects
    /\ SetEffectState(BlendModeSetBlendFunction(EffectState, e, value))
    /\ fx' = EffectPassOnChange(fx, BlendModeSetBlendFunction(EffectState, e, value))
    /\ last' = [op |-> "blend", effect |-> e, changed |-> changed,
                defines |-> defines]
    /\ raised' = "none"
    /\ UNCHANGED <<objects, sizes, sel, schedVars, lifeVars, gpuVars, driver, pending>>

\* effect.blendMode.opacity.value = value
SetOpacity(e, value) ==
    /\ e \in objects
    /\ SetEffectState(BlendModeSetOpacity(EffectState, e, value))
    /\ last' = [op |-> "opacity", effect |-> e, changed |-> changed,
                defines |-> defines]
    /\ raised' = "none"
    /\ UNCHANGED <<objects, sizes, sel, schedVars, lifeVars, gpuVars, fx, driver, pending>>

\* outlineEffect.uniforms.get("edgeStrength").value = value
SetEdgeStrength(value) ==
    /\ "outline" \in objects
    /\ EffectOperation([EffectState EXCEPT !.uniforms.edgeStrength = value])

\* secondOutlineEffect.uniforms.get("edgeStrength").value = value
SetSecondEdgeStrength(value) ==
    /\ "outline2" \in objects
    /\ EffectOperation([EffectState EXCEPT !.uniforms2.edgeStrength = value])

\* outlineEffect.setPulseSpeed(value)
SetPulseSpeed(value) ==
    /\ "outline" \in objects
    /\ EffectOperation(OutlineEffectSetPulseSpeed(EffectState, value))

\* outlineEffect.selection.set(objects): n objects are selected afterwards.
SetSelection(n) ==
    /\ "outline" \in objects
    /\ EffectOperation([EffectState EXCEPT !.outline.selectionSize = n])

\* outlineEffect.blur = value: enables or disables the blur pass.
SetBlur(value) ==
    /\ "outline" \in objects
    /\ EffectOperation([EffectState EXCEPT !.outline.blur = value])

\* effectPass.setEffects(effects): two convolution effects in one pass are
\* a ConfigurationError, raised to the caller; otherwise the membership is
\* replaced, the attributes are aggregated and, when the pass is
\* initialized already, the effects are initialized.
SetEffects(effects) ==
    /\ "fx" \in objects /\ "fx" \notin disposed
    /\ Range(effects) \subseteq objects \ disposed
    /\ IF ConvolutionConflict(effects)
       THEN /\ raised' = "ConfigurationError"
            /\ UNCHANGED <<fx, effectVars, pending>>
       ELSE /\ raised' = "none"
            /\ fx' = [fx EXCEPT !.effects = effects,
                                !.attributes = AggregateAttributes(effects)]
            /\ pending' = IF effects # fx.effects
                          THEN Min(MaxPending, pending + 1) ELSE pending
            /\ SetEffectState(IF "fx" \in initialized
                              THEN InitializeEffects(effects, 1, EffectState)
                              ELSE EffectState)
    /\ last' = Other
    /\ UNCHANGED <<objects, sizes, sel, schedVars, lifeVars, gpuVars, driver>>

(* ------------------------------ resizing ------------------------------ *)

\* Resolution.AUTO_SIZE: the sentinel of an axis without an override.
AutoSize == 0 - 1

\* A division that drops the fraction.
Truncate(a, b) == IF b = 0 THEN 0 ELSE a \div b

\* Math.round(a / b) of non-negative integers.
Round(a, b) == IF b = 0 THEN 0 ELSE (2 * a + b) \div (2 * b)

\* Math.floor(a / b) of non-negative integers.
RoundDown(a, b) == IF b = 0 THEN 0 ELSE a \div b

\* Scales are counted in halves: 1 is the scale 0.5 and 2 the scale 1.0.
ScaleUnit == 2

\* Resolution.width: the override when one is set; derived from the height
\* override by the base aspect ratio when only that is set; the scaled base
\* width otherwise.
ResolutionWidth(r) ==
    IF r.preferredWidth # AutoSize THEN r.preferredWidth
    ELSE IF r.preferredHeight # AutoSize
    THEN Round(r.preferredHeight * r.baseWidth, r.baseHeight)
    ELSE Round(r.baseWidth * r.scale, ScaleUnit)

\* Resolution.height, symmetrically.
ResolutionHeight(r) ==
    IF r.preferredHeight # AutoSize THEN r.preferredHeight
    ELSE IF r.preferredWidth # AutoSize
    THEN Round(r.preferredWidth * r.baseHeight, r.baseWidth)
    ELSE Round(r.baseHeight * r.scale, ScaleUnit)

RECURSIVE ResolutionChange(_)
RECURSIVE ResolutionSetBaseSize(_, _, _)
RECURSIVE KawaseBlurPassSetSize(_, _, _)
RECURSIVE OutlineEffectSetSize(_, _, _)

\* Resolution dispatches its change event: the listener OutlineEffect
\* registered on the resolution of its blur pass calls
\* setSize(resolution.baseWidth, resolution.baseHeight).
ResolutionChange(S) ==
    OutlineEffectSetSize([S EXCEPT !.notified = @ + 1],
                         S.resolution.baseWidth, S.resolution.baseHeight)

\* A setBaseSize that notifies once for each field it changes.
ResolutionSetBaseSizePerField(S, width, height) ==
    LET S1 == IF S.resolution.baseWidth # width
              THEN ResolutionChange([S EXCEPT !.resolution.baseWidth = width])
              ELSE S
    IN  IF S1.resolution.baseHeight # height
        THEN ResolutionChange([S1 EXCEPT !.resolution.baseHeight = height])
        ELSE S1

\* Resolution.setBaseSize(width, height): both fields are stored, then the
\* dependents are notified once, when the base size changed.
ResolutionSetBaseSize(S, width, height) ==
    IF S.resolution.baseWidth # width \/ S.resolution.baseHeight # height
    THEN ResolutionChange([S EXCEPT !.resolution.baseWidth = width,
                                    !.resolution.baseHeight = height])
    ELSE S

\* Resolution.scale = value, Resolution.preferredWidth = value,
\* Resolution.preferredHeight = value: the field is stored and the
\* dependents are notified once, when it changed.
ResolutionSetField(S, field, value) ==
    IF S.resolution[field] # value
    THEN ResolutionChange([S EXCEPT !.resolution[field] = value])
    ELSE S

\* KawaseBlurPass.setSize(width, height): the base size of its resolution
\* is set and its render targets get the size of the resolution.
KawaseBlurPassSetSize(S, width, height) ==
    LET S1 == ResolutionSetBaseSize(S, width, height)
    IN  [S1 EXCEPT !.blur = <<ResolutionWidth(S1.resolution),
                              ResolutionHeight(S1.resolution)>>]

\* A setSize that sizes the mask target by the resolution as well.
OutlineEffectSetSizeMaskScaled(S, width, height) ==
    LET S1 == KawaseBlurPassSetSize(S, width, height)
        S3 == ResolutionSetBaseSize(S1, width, height)
        w == ResolutionWidth(S3.resolution)
        h == ResolutionHeight(S3.resolution)
    IN  [S3 EXCEPT !.mask = <<w, h>>, !.outline = <<w, h>>]

\* OutlineEffect.setSize(width, height)
OutlineEffectSetSize(S, width, height) ==
    LET S1 == KawaseBlurPassSetSize(S, width, height)
        S2 == [S1 EXCEPT !.mask = <<width, height>>]
        S3 == ResolutionSetBaseSize(S2, width, height)
        w == ResolutionWidth(S3.resolution)
        h == ResolutionHeight(S3.resolution)
    IN  [S3 EXCEPT !.outline = <<w, h>>]

\* A BloomPass.setSize that sizes its render targets by the size it is
\* handed.
BloomPassSetSizeFull(S, width, height) ==
    [S EXCEPT !.bloomX = <<width, height>>, !.bloomY = <<width, height>>]

\* BloomPass.setSize(width, height)
BloomPassSetSize(S, width, height) ==
    LET w == IF RoundDown(width * S.bloomScale, ScaleUnit) > 1
             THEN RoundDown(width * S.bloomScale, ScaleUnit) ELSE 1
        h == IF RoundDown(height * S.bloomScale, ScaleUnit) > 1
             THEN RoundDown(height * S.bloomScale, ScaleUnit) ELSE 1
    IN  [S EXCEPT !.bloomX = <<w, h>>, !.bloomY = <<w, h>>]

\* set ToneMappingPass.resolution
ToneMappingPassSetResolution(S, x) ==
    IF x > 0 THEN [S EXCEPT !.tone = x] ELSE S

\* EffectPass.setSize(width, height): the effects are resized.
EffectPassSetSize(S, F, width, height) ==
    IF \E i \in 1 .. Len(F.effects) : F.effects[i] = "outline"
    THEN OutlineEffectSetSize(S, width, height)
    ELSE S

\* Pass.setSize(width, height) of the pass p.  ToneMappingPass and
\* ShaderPass do not override it.
PassSetSize(S, p, F, width, height) ==
    LET S1 == CASE p = "bloom" -> BloomPassSetSize(S, width, height)
                [] p = "fx" -> EffectPassSetSize(S, F, width, height)
                [] OTHER -> S
    IN  [S1 EXCEPT !.received[p] = <<width, height>>]

\* The passes of the list from index i on receive setSize, in list order.
RECURSIVE PropagateSize(_, _, _, _, _, _)
PropagateSize(S, list, i, F, width, height) ==
    IF i > Len(list) THEN S
    ELSE PropagateSize(PassSetSize(S, list[i], F, width, height), list, i + 1,
                       F, width, height)

\* The sizes a host hands to setSize, zero among them, the resolutions it
\* gives the tone mapping pass, and the overrides it sets.
Sizes == {0, 3, 4}

ToneResolutions == {0, 128}

Overrides == {AutoSize, 2}

Scales == {1, 2}

\* At the start of an operation of the host nothing has been notified or
\* received.
StartOperation(S) ==
    [S EXCEPT !.notified = 0, !.received = [p \in PassIds |-> <<>>]]

\* An operation on sizes: S is the state of the sizes it leaves, error the
\* error it raises.
ResizeOperation(name, args, S, error) ==
    /\ sizes' = S
    /\ last' = [op |-> "resize", name |-> name, args |-> args,
                before |-> sizes.resolution]
    /\ raised' = error
    /\ UNCHANGED <<objects, sel, schedVars, lifeVars, gpuVars, fx, effectVars,
                   driver, pending>>

\* scheduler.setSize(width, height): an invalid size is a ResourceError;
\* otherwise the buffers of the scheduler are resized and every pass of the
\* list receives setSize(width, height).
ComposerSetSize(width, height) ==
    /\ "scheduler" \notin disposed
    /\ IF width <= 0 \/ height <= 0
       THEN ResizeOperation("scheduler.setSize", <<width, height>>,
                            StartOperation(sizes), "ResourceError")
       ELSE ResizeOperation("scheduler.setSize", <<width, height>>,
                PropagateSize([StartOperation(sizes) EXCEPT
                                  !.composer = <<width, height>>],
                              passes, 1, fx, width, height), "none")

\* bloomPass.setSize(width, height), called by the host
BloomSetSize(width, height) ==
    /\ "bloom" \in objects \ disposed
    /\ ResizeOperation("bloom.setSize", <<width, height>>,
                       BloomPassSetSize(StartOperation(sizes), width, height), "none")

\* toneMappingPass.resolution = x
SetToneResolution(x) ==
    /\ "tone" \in objects \ disposed
    /\ ResizeOperation("tone.resolution", <<x>>,
                       ToneMappingPassSetResolution(StartOperation(sizes), x), "none")

\* outlineEffect.setResolutionScale(scale)
SetResolutionScale(scale) ==
    /\ "outline" \in objects \ disposed
    /\ ResizeOperation("outline.setResolutionScale", <<scale>>,
                       ResolutionSetField(StartOperation(sizes), "scale", scale), "none")

\* outlineEffect.width = value
SetWidth(value) ==
    /\ "outline" \in objects \ disposed
    /\ ResizeOperation("outline.width", <<value>>,
                       ResolutionSetField(StartOperation(sizes), "preferredWidth", value),
                       "none")

\* outlineEffect.height = value
SetHeight(value) ==
    /\ "outline" \in objects \ disposed
    /\ ResizeOperation("outline.height", <<value>>,
                       ResolutionSetField(StartOperation(sizes), "preferredHeight", value),
                       "none")

\* The sizes after construction: the resolution of the outline effect with
\* resolutionScale = 0.5 and no overrides, BloomPass with resolutionScale =
\* 0.5, ToneMappingPass with resolution = 256, render targets of one pixel.
InitialSizes ==
    [composer |-> <<1, 1>>,
     resolution |-> [baseWidth |-> 1, baseHeight |-> 1, scale |-> 1,
                     preferredWidth |-> AutoSize, preferredHeight |-> AutoSize],
     blur |-> <<1, 1>>, mask |-> <<1, 1>>, outline |-> <<1, 1>>,
     bloomScale |-> 1, bloomX |-> <<1, 1>>, bloomY |-> <<1, 1>>,
     tone |-> 256,
     received |-> [p \in PassIds |-> <<>>],
     notified |-> 0]

(* ----------------------------- Selection ------------------------------ *)

\* The objects of the scene a host selects.
SceneObjects == {"mesh1", "mesh2"}

\* The default render layer of a selection.
DefaultLayer == 10

\* The render layers of the model: layer 0 is the layer the camera draws,
\* layer 1 a layer of the host's own.
Channels == {0, 1, DefaultLayer}

\* object.layers, as the set of the enabled layers.
LayersEnable(mask, channel) == mask \cup {channel}

LayersDisable(mask, channel) == mask \ {channel}

LayersSet(mask, channel) == {channel}

\* selection.has(object)
SelectionHas(S, object) == object \in S.members

SelectionAddEnableOnly(S, object) ==
    [S EXCEPT !.layers[object] = LayersEnable(@, S.l),
              !.members = @ \cup {object}]

\* selection.add(object)
SelectionAdd(S, object) ==
    [S EXCEPT !.layers[object] = IF S.exclusive THEN LayersSet(@, S.l)
                                 ELSE LayersEnable(@, S.l),
              !.members = @ \cup {object}]

SelectionDeleteKeepLayer(S, object) == [S EXCEPT !.members = @ \ {object}]

\* selection.delete(object)
SelectionDelete(S, object) ==
    [S EXCEPT !.layers[object] = IF SelectionHas(S, object)
                                 THEN LayersDisable(@, S.l) ELSE @,
              !.members = @ \ {object}]

\* What selection.delete(object) returns: whether Set.delete removed it.
SelectionDeleteResult(S, object) == SelectionHas(S, object)

SelectionToggleAdd(S, object) == SelectionAdd(S, object)

\* selection.toggle(object)
SelectionToggle(S, object) ==
    IF SelectionHas(S, object) THEN SelectionDelete(S, object)
    ELSE SelectionAdd(S, object)

\* What selection.toggle(object) returns.
SelectionToggleResult(S, object) == ~SelectionHas(S, object)

SelectionClearMembersOnly(S) == [S EXCEPT !.members = {}]

\* selection.clear()
SelectionClear(S) ==
    [S EXCEPT !.layers = [o \in SceneObjects |->
                             IF SelectionHas(S, o) THEN LayersDisable(S.layers[o], S.l)
                             ELSE S.layers[o]],
              !.members = {}]

\* for(const object of objects) { this.add(object); }
RECURSIVE SelectionAddAll(_, _)
SelectionAddAll(S, list) ==
    IF list = <<>> THEN S
    ELSE SelectionAddAll(SelectionAdd(S, Head(list)), Tail(list))

\* selection.set(objects)
SelectionSet(S, list) == SelectionAddAll(SelectionClear(S), list)

SelectionSetLayerFieldOnly(S, value) == [S EXCEPT !.l = value]

SelectionSetLayerEnableFirst(S, value) ==
    [S EXCEPT !.layers = [o \in SceneObjects |->
                             IF SelectionHas(S, o)
                             THEN LayersDisable(LayersEnable(S.layers[o], value), S.l)
                             ELSE S.layers[o]],
              !.l = value]

\* selection.layer = value, selection.setLayer(value)
SelectionSetLayer(S, value) ==
    [S EXCEPT !.layers = [o \in SceneObjects |->
                             IF SelectionHas(S, o)
                             THEN LayersEnable(LayersDisable(S.layers[o], S.l), value)
                             ELSE S.layers[o]],
              !.l = value]

\* selection.setExclusive(value)
SelectionSetExclusive(S, value) == [S EXCEPT !.exclusive = value]

SelectionSetVisibleAll(S, visible) ==
    [S EXCEPT !.layers = [o \in SceneObjects |->
                             IF visible THEN LayersEnable(S.layers[o], 0)
                             ELSE LayersDisable(S.layers[o], 0)]]

\* selection.setVisible(visible)
SelectionSetVisible(S, visible) ==
    [S EXCEPT !.layers = [o \in SceneObjects |->
                             IF SelectionHas(S, o)
                             THEN IF visible THEN LayersEnable(S.layers[o], 0)
                                  ELSE LayersDisable(S.layers[o], 0)
                             ELSE S.layers[o]]]

\* The iterable argument of the constructor: left out, or one list.
NoIterable == {}

\* new Selection(iterable, layer) over objects with the given layers.
SelectionConstructor(layers, iterable, layer) ==
    LET S == [members |-> {}, l |-> layer, exclusive |-> FALSE, layers |-> layers]
    IN  IF iterable = NoIterable THEN S
        ELSE SelectionSet(S, CHOOSE list \in iterable : TRUE)

\* new Object3D(): layer 0 is enabled.
Object3DLayers == [o \in SceneObjects |-> {0}]

\* The lists of objects a host passes.
ObjectLists == DistinctSeqs(SceneObjects, Cardinality(SceneObjects))

\* An operation on the selection: S is the state it leaves, result what it
\* returns.
SelectionOperation(name, args, S, result) ==
    /\ sel' = S
    /\ last' = [op |-> "selection", name |-> name, args |-> args,
                before |-> sel, result |-> result]
    /\ raised' = "none"
    /\ UNCHANGED <<objects, sizes, schedVars, lifeVars, gpuVars, fx, effectVars,
                   driver, pending>>

Add(object) ==
    SelectionOperation("add", <<object>>, SelectionAdd(sel, object), "this")

Delete(object) ==
    SelectionOperation("delete", <<object>>, SelectionDelete(sel, object),
                       IF SelectionDeleteResult(sel, object) THEN "true" ELSE "false")

Toggle(object) ==
    SelectionOperation("toggle", <<object>>, SelectionToggle(sel, object),
                       IF SelectionToggleResult(sel, object) THEN "true" ELSE "false")

Clear == SelectionOperation("clear", <<>>, SelectionClear(sel), "undefined")

Set(list) == SelectionOperation("set", <<list>>, SelectionSet(sel, list), "this")

SetLayer(value) ==
    SelectionOperation("layer", <<value>>, SelectionSetLayer(sel, value), "undefined")

SetExclusive(value) ==
    SelectionOperation("exclusive", <<value>>, SelectionSetExclusive(sel, value),
                       "undefined")

SetVisible(visible) ==
    SelectionOperation("setVisible", <<visible>>, SelectionSetVisible(sel, visible),
                       "this")

\* selection.add(object) and then selection.delete(object)
AddDelete(object) ==
    SelectionOperation("add, delete", <<object>>,
                       SelectionDelete(SelectionAdd(sel, object), object), "true")

\* new Selection(iterable, layer): the host replaces its selection by a new
\* one; the objects keep the layers they have.
New(iterable, layer) ==
    SelectionOperation("new", <<iterable, layer>>,
                       SelectionConstructor(sel.layers, iterable, layer), "this")

(* ------------------------- initial states ----------------------------- *)

\* The effect state before any constructor body ran.
BlankEffects ==
    [defines |-> [e \in EffectIds |-> {}],
     changed |-> [e \in EffectIds |-> FALSE],
     outline |-> [time |-> 0, pulseSpeed |-> 0, selectionSize |-> 0,
                  renderer |-> "null", vertexShader |-> "null",
                  subPassesInitialized |-> FALSE, maskRendered |-> FALSE,
                  blur |-> FALSE, subInitialized |-> {}, subRendered |-> {}],
     uniforms |-> [pulse |-> 0, edgeStrength |-> 1, patternTexture |-> "null"],
     uniforms2 |-> [pulse |-> 0, edgeStrength |-> 1, patternTexture |-> "null"],
     blendMode |-> [e \in EffectIds |-> [blendFunction |-> "normal", opacity |-> 1]]]

\* new NoiseEffect(): blendFunction = BlendFunction.SCREEN, premultiply =
\* false.
NoiseEffectConstructor(E) ==
    NoiseEffectSetPremultiplied(
        [E EXCEPT !.blendMode["noise"].blendFunction = "screen"], FALSE)

\* new DepthEffect(): setInverted(false).
DepthEffectConstructor(E) == DepthEffectSetInverted(E, FALSE)

\* new OutlineEffect(scene, camera): the blend function is set, which the
\* change listener answers with setChanged(); patternTexture is stored;
\* xRay = true.
OutlineEffectConstructor(E) ==
    OutlineEffectSetXRayEnabled(
        BlendModeSetBlendFunction(E, "outline", "screen"), TRUE)

\* The host's second OutlineEffect, constructed like the first; it has no
\* selection, so that its update and initialize leave its state alone.
SecondOutlineEffectConstructor(E) ==
    [BlendModeSetBlendFunction(E, "outline2", "screen")
        EXCEPT !.defines["outline2"] = DefinesSet(@, "X_RAY", "1")]

ConstructedEffects ==
    SecondOutlineEffectConstructor(
        OutlineEffectConstructor(DepthEffectConstructor(NoiseEffectConstructor(BlankEffects))))

\* OutlineEffect.setPatternTexture(texture) of the second definition of
\* OutlineEffect: it reads this.renderer.capabilities whether or not a
\* renderer is attached.  The result is the effect state and the error
\* raised.
OutlineEffectSetPatternTextureUnguarded(E, texture) ==
    LET E1 == IF texture # "null"
              THEN [E EXCEPT !.defines["outline"] = DefinesSet(@, "USE_PATTERN", "1"),
                             !.uniforms.patternTexture = texture,
                             !.outline.vertexShader = "outline.vert"]
              ELSE [E EXCEPT !.defines["outline"] = DefinesDelete(@, "USE_PATTERN"),
                             !.uniforms.patternTexture = "null",
                             !.outline.vertexShader = "null"]
    IN  IF E1.outline.renderer = "null"
        THEN [E |-> E1, error |-> "TypeError"]
        ELSE [E |-> setChanged(
                        [E1 EXCEPT !.defines["outline"] =
                            DefinesSet(@, "texelToLinear(texel)",
                                       getTextureDecoding(texture))],
                        "outline"),
              error |-> "none"]

\* new OutlineEffect(scene, camera) of the second definition: the blend
\* function is set, then setPatternTexture(null) is called, then
\* setXRayEnabled(true); an error leaves no object.
OutlineEffectConstructorUnguarded(E) ==
    LET r == OutlineEffectSetPatternTextureUnguarded(
                 BlendModeSetBlendFunction(E, "outline", "screen"), "null")
    IN  IF r.error # "none" THEN [E |-> E, error |-> r.error]
        ELSE [E |-> OutlineEffectSetXRayEnabled(r.E, TRUE), error |-> "none"]

\* The two definitions of OutlineEffect.
Definitions == {"first", "second"}

\* The passes and effects a host constructs with default arguments.
Constructible == {"bloom", "tone", "shader", "noise", "depth", "outline"}

\* new K() with default or null arguments: the effect state it leaves and
\* the error it raises.
Constructor(k, definition, E) ==
    CASE k = "noise" -> [E |-> NoiseEffectConstructor(E), error |-> "none"]
      [] k = "depth" -> [E |-> DepthEffectConstructor(E), error |-> "none"]
      [] k = "outline" /\ definition = "first" ->
            [E |-> OutlineEffectConstructor(E), error |-> "none"]
      [] k = "outline" /\ definition = "second" ->
            OutlineEffectConstructorUnguarded(E)
      [] OTHER -> [E |-> E, error |-> "none"]

\* The host constructs the object k; an OutlineEffect is of one of the two
\* definitions.
Create(k, definition) ==
    /\ k \in Constructible \ objects
    /\ LET r == Constructor(k, definition, EffectState)
       IN  /\ SetEffectState(r.E)
           /\ objects' = IF r.error = "none" THEN objects \cup {k} ELSE objects
           /\ raised' = r.error
    /\ last' = [op |-> "construct", target |-> k, definition |-> definition]
    /\ UNCHANGED <<sizes, sel, schedVars, lifeVars, gpuVars, fx, driver, pending>>

\* new EffectPass(camera, ...effects)
EffectPassConstructor(effects) ==
    [effects |-> effects, attributes |-> AggregateAttributes(effects),
     compiled |-> FALSE, key |-> <<>>, uniforms |-> <<>>, defines |-> <<>>,
     version |-> 0]

InitPipeline(pool, effects, adaptive, E) ==
    /\ objects = pool
    /\ passes = <<>>
    /\ enabled = [p \in PassIds |-> TRUE]
    /\ renderToScreen = [p \in PassIds |-> FALSE]
    /\ initialized = {}
    /\ disposed = {}
    /\ releases = [r \in Resources |-> 0]
    /\ buf \in {[inputBuffer |-> c, outputBuffer |-> 0] : c \in Colors}
    /\ screen = 0
    /\ depthBuf = 0
    /\ tone = [adaptive |-> adaptive, luminosity |-> 0, adapted |-> 0, previous |-> 0]
    /\ bloom = [x |-> 0, y |-> 0]
    /\ fx = EffectPassConstructor(effects)
    /\ SetEffectStateInit(E)
    /\ driver = "accepts"
    /\ sizes = InitialSizes
    /\ pending = 0
    /\ last = Other
    /\ raised = "none"

\* The pipeline and the empty selection of an outline effect.
InitOf(pool, effects, adaptive, E) ==
    /\ InitPipeline(pool, effects, adaptive, E)
    /\ sel = SelectionConstructor(Object3DLayers, NoIterable, DefaultLayer)

InitWith(pool, effects, adaptive) ==
    InitOf(pool, effects, adaptive, ConstructedEffects)

\* The pipeline of a host that constructs a tone mapping pass, a bloom pass
\* and an EffectPass with a depth effect.
Init == InitWith({"tone", "bloom", "fx", "depth"}, <<"depth">>, TRUE)

Next ==
    \/ \E p \in PassIds, i \in 1 .. Cardinality(PassIds) : AddPass(p, i)
    \/ \E p \in PassIds : RemovePass(p)
    \/ \E p \in PassIds, v \in BOOLEAN : SetEnabled(p, v)
    \/ \E p \in PassIds, v \in BOOLEAN : SetRenderToScreen(p, v)
    \/ \E dt \in Deltas : Render(dt)

Spec == Init /\ [][Next]_vars

(* ------------------------- scheduling properties ---------------------- *)

\* The passes of the list that are enabled, in list order.
EnabledPasses == SelectSeq(passes, LAMBDA p : enabled[p])

\* The pass at index i of the list is terminal, by the definition of the
\* term: marked as writing to the display, or the last enabled pass.
Terminal(i) ==
    \/ renderToScreen[passes[i]]
    \/ /\ enabled[passes[i]]
       /\ \A j \in 1 .. Len(passes) : enabled[passes[j]] => j <= i

Rendered == last.op = "render"

\* What a frame leaves behind.
Observation(R) ==
    [calls |-> [k \in 1 .. Len(R.log) |-> R.log[k].pass],
     draws |-> [k \in 1 .. Len(R.log) |-> R.log[k].draws],
     swaps |-> [k \in 1 .. Len(R.log) |-> R.log[k].swapped],
     roles |-> <<R.read, R.write>>,
     buf |-> R.buf, screen |-> R.screen, depthBuf |-> R.depthBuf,
     tone |-> R.tone, bloom |-> R.bloom, fx |-> R.fx, E |-> R.E]

\* C1: for every pass p of the list and every delta time, the frame
\* rendered with p disabled makes the same render calls and draws, swaps
\* the roles at the same calls and leaves the same buffers, display and
\* pass state as the frame rendered over the list without p; and a frame
\* that was rendered holds no call of a disabled pass.
C1_DisabledIsRemoved ==
    /\ \A i \in 1 .. Len(passes) : \A dt \in Deltas :
          LET R0 == FrameStart(GraphicsState, fx, EffectState)
              off == [enabled EXCEPT ![passes[i]] = FALSE]
          IN  Observation(ComposerRender(passes, off, renderToScreen, R0, dt))
              = Observation(ComposerRender(RemoveAt(passes, i), enabled,
                                           renderToScreen, R0, dt))
    /\ Rendered => \A k \in 1 .. Len(last.log) : enabled[last.log[k].pass]

\* A frame was rendered over a list whose middle pass is disabled and
\* would swap the roles, between two passes that ran.
C1_Witness ==
    /\ Rendered
    /\ Len(passes) = 3
    /\ ~enabled[passes[2]] /\ needsSwap(passes[2])
    /\ Len(last.log) = 2
    /\ screen # 0

\* The buffer, or the display, that holds the colour data the call k of
\* the frame reads: the output of the nearest call before k that did not
\* draw on the display, and the input buffer of the frame when there is
\* none.
RECURSIVE NearestBufferOutput(_, _)
NearestBufferOutput(log, k) ==
    IF k = 1 THEN "inputBuffer"
    ELSE IF log[k - 1].output # "screen" THEN log[k - 1].output
    ELSE NearestBufferOutput(log, k - 1)

\* The roles were swapped between the calls k and k + 1 of the frame.
RolesSwapped(log, k, endRead, endWrite) ==
    LET nextRead == IF k < Len(log) THEN log[k + 1].read ELSE endRead
        nextWrite == IF k < Len(log) THEN log[k + 1].write ELSE endWrite
    IN  nextRead = log[k].write /\ nextWrite = log[k].read

\* The index in the list of the pass of call k.
ListIndex(log, k) == IndexOf(passes, log[k].pass)

\* The roles of a frame: read and write are the two buffers at every
\* call, and they are swapped after a call iff its pass is flagged and not
\* terminal, else kept.
FrameRoles ==
    Rendered =>
        \A k \in 1 .. Len(last.log) :
            LET e == last.log[k]
            IN  /\ {e.read, e.write} = BufferNames
                /\ {last.read, last.write} = BufferNames
                /\ RolesSwapped(last.log, k, last.read, last.write)
                     <=> (needsSwap(e.pass) /\ ~Terminal(ListIndex(last.log, k)))
                /\ ~RolesSwapped(last.log, k, last.read, last.write)
                     => (IF k < Len(last.log) THEN last.log[k + 1].read
                                              ELSE last.read) = e.read

\* C2 as stated: the roles of a frame, and every call but the first reads
\* the output of the call before it.
C2_ReadsPrecedingOutput ==
    /\ FrameRoles
    /\ Rendered =>
          \A k \in 2 .. Len(last.log) : last.log[k].read = last.log[k - 1].output

\* C2: within a frame read and write are two distinct buffers, swapped
\* after a pass iff it is enabled, flagged with needsSwap and not terminal;
\* every call reads the output of the nearest preceding call that did not
\* draw on the display (the input buffer of the frame when there is none).
C2_ReadsPrecedingBufferOutput ==
    /\ FrameRoles
    /\ Rendered =>
          \A k \in 1 .. Len(last.log) :
              last.log[k].read = NearestBufferOutput(last.log, k)

\* A frame of three calls: a pass that swaps, a pass that blends into the
\* read buffer, and a third that reads their result.
C2_Witness ==
    /\ Rendered
    /\ Len(last.log) = 3
    /\ last.log[1].pass = "tone" /\ last.log[1].swapped
    /\ last.log[2].pass = "bloom" /\ ~last.log[2].swapped
    /\ last.log[2].output = last.log[3].read

\* C3, a step: addPass(p, i) places p at index i and removePass(p) removes
\* p, and the list without p is the same before and after.
ListStep ==
    /\ \A p \in PassIds : \A i \in 1 .. Cardinality(PassIds) :
          AddPass(p, i) => /\ passes'[i] = p
                           /\ RemoveAt(passes', i) = passes
    /\ \A p \in PassIds :
          RemovePass(p) => /\ p \notin Range(passes')
                           /\ \E i \in 1 .. Len(passes) :
                                 passes[i] = p /\ passes' = RemoveAt(passes, i)

\* C3: the list steps as addPass and removePass say, and the calls of a
\* frame are the enabled passes of the list, each once, in list order.
C3_ListOrder ==
    /\ [](Rendered =>
            [k \in 1 .. Len(last.log) |-> last.log[k].pass] = EnabledPasses)
    /\ [][ListStep]_vars

\* A frame of two calls was rendered over a list that three passes were
\* added to and that the bloom pass was removed from.
C3_Witness ==
    /\ Rendered
    /\ passes = <<"fx", "tone">>
    /\ "bloom" \in disposed
    /\ Len(last.log) = 2
    /\ last.log[1].pass = "fx"

\* C4: the terminal passes of a frame draw on the display and not into
\* the write buffer, and no other pass draws on the display.
C4_TerminalOutput ==
    Rendered =>
        \A k \in 1 .. Len(last.log) :
            LET e == last.log[k]
                onScreen == {d \in 1 .. Len(e.draws) : e.draws[d].dst = "screen"}
            IN  IF Terminal(ListIndex(last.log, k))
                THEN /\ onScreen = {Len(e.draws)}
                     /\ \A d \in 1 .. Len(e.draws) : e.draws[d].dst # e.write
                ELSE onScreen = {}

\* A frame in which a pass marked for the display ran before the last
\* enabled pass, after a pass was disabled.
C4_Witness ==
    /\ Rendered
    /\ Len(last.log) = 2
    /\ Len(passes) = 3
    /\ renderToScreen[last.log[1].pass]
    /\ ~renderToScreen[last.log[2].pass]
    /\ last.log[2].output = "screen"

(* --------------------------- depth sharing ---------------------------- *)

\* The pipeline of a host that constructs a raw shader pass and an
\* EffectPass, both of which can sample the shared depth buffer.
InitDepth == InitWith({"fx", "shader", "depth", "noise"}, <<"depth">>, TRUE)

\* The effect lists a host can build from the effects it constructed.
EffectLists == UNION {DistinctSeqs(EffectIds \cap objects, n) : n \in 0 .. MaxEffects}

NextDepth ==
    \/ \E p \in PassIds, i \in 1 .. Cardinality(PassIds) : AddPass(p, i)
    \/ \E p \in PassIds, v \in BOOLEAN : SetEnabled(p, v)
    \/ \E effects \in EffectLists : SetEffects(effects)
    \/ \E dt \in Deltas : Render(dt)

SpecDepth == InitDepth /\ [][NextDepth]_vars

\* The calls of a frame that sample the shared depth buffer.
DepthReaders(log) ==
    {k \in 1 .. Len(log) :
        \E d \in 1 .. Len(log[k].draws) : "depthBuffer" \in log[k].draws[d].src}

\* C5: in a frame in which an enabled pass requires the shared depth
\* buffer, or a call samples it, the depth producer stage ran exactly once;
\* the producer is the only writer of the depth buffer in any frame.
C5_OneDepthProducer ==
    Rendered =>
        /\ (\E i \in 1 .. Len(passes) :
                enabled[passes[i]] /\ RequiresDepth(passes[i], fx))
             => Len(last.depthWrites) = 1
        /\ DepthReaders(last.log) # {} => Len(last.depthWrites) = 1
        /\ \A w \in 1 .. Len(last.depthWrites) : last.depthWrites[w] = "depthProducer"
        /\ \A k \in 1 .. Len(last.log) : \A d \in 1 .. Len(last.log[k].draws) :
              last.log[k].draws[d].dst # "depthBuffer"

\* A frame in which two passes sampled the depth buffer that the producer
\* stage wrote once.
C5_Witness ==
    /\ Rendered
    /\ Cardinality(DepthReaders(last.log)) = 2
    /\ last.depthWrites = <<"depthProducer">>
    /\ depthBuf = SceneDepth

(* ------------------------------ disposal ------------------------------ *)

\* The pipeline of a host that constructs three passes, one of them an
\* EffectPass with an outline effect.
InitLife == InitWith({"tone", "bloom", "fx", "outline"}, <<"outline">>, TRUE)

NextLife ==
    \/ \E p \in PassIds, i \in 1 .. Cardinality(PassIds) : AddPass(p, i)
    \/ \E p \in PassIds : RemovePass(p)
    \/ \E o \in PassIds \cup EffectIds : PassDispose(o)
    \/ SchedulerDispose

SpecLife == InitLife /\ [][NextLife]_vars

\* removePass(p) leaves every resource of p released, and a dispose() of
\* an object that is disposed already changes nothing.
DisposeStep ==
    /\ \A p \in PassIds :
          RemovePass(p) => \A r \in OwnedResources(p) : releases'[r] = 1
    /\ (last'.op = "dispose" /\ last'.again)
          => UNCHANGED <<objects, schedVars, lifeVars, gpuVars, fx, effectVars>>

\* C6: no resource is released twice, no call faults, a disposed object
\* has released all it owns, removePass(p) releases the resources of p and
\* a second dispose() changes nothing.
C6_ReleasedOnce ==
    /\ [](/\ \A r \in Resources : releases[r] <= 1
          /\ raised = "none"
          /\ \A o \in disposed : \A r \in OwnedResources(o) : releases[r] = 1)
    /\ [][DisposeStep]_vars

\* The outline effect was disposed with its EffectPass, by removePass, and
\* then disposed again.
C6_Witness ==
    /\ last.op = "dispose"
    /\ last.target = "outline"
    /\ last.again
    /\ "fx" \in disposed
    /\ \A r \in OwnedResources("outline") : releases[r] = 1

(* --------------------------- fused effects ---------------------------- *)

\* The pipeline of a host that constructs an EffectPass and two effects
\* and changes their defines and the membership of the pass.
InitFuse == InitWith({"fx", "noise", "outline"}, <<"outline">>, TRUE)

NextFuse ==
    \/ \E p \in PassIds, i \in 1 .. Cardinality(PassIds) : AddPass(p, i)
    \/ \E effects \in EffectLists : SetEffects(effects)
    \/ \E v \in BOOLEAN : SetPremultiplied(v)
    \/ \E v \in BOOLEAN : SetXRayEnabled(v)
    \/ \E t \in Textures : SetPatternTexture(t)
    \/ \E dt \in Deltas : Render(dt)

SpecFuse == InitFuse /\ [][NextFuse]_vars

\* The pipeline of a host that constructs an EffectPass with an outline
\* effect and writes its uniforms.
InitUniform == InitWith({"fx", "outline"}, <<"outline">>, TRUE)

\* The values a host writes into edgeStrength and pulseSpeed, and the
\* number of objects it selects.
Strengths == {0, 1}

Speeds == {0, 1}

SelectionSizes == {0, 1}

NextUniform ==
    \/ \E p \in PassIds, i \in 1 .. Cardinality(PassIds) : AddPass(p, i)
    \/ \E v \in BOOLEAN : SetXRayEnabled(v)
    \/ \E v \in Strengths : SetEdgeStrength(v)
    \/ \E v \in Speeds : SetPulseSpeed(v)
    \/ \E n \in SelectionSizes : SetSelection(n)
    \/ \E dt \in Deltas : Render(dt)

SpecUniform == InitUniform /\ [][NextUniform]_vars

\* The pipeline of a host that constructs an EffectPass and two effects
\* that carry the convolution attribute.
InitConfig == InitWith({"fx", "noise", "bokeh", "smaa"}, <<>>, TRUE)

NextConfig ==
    \/ \E p \in PassIds, i \in 1 .. Cardinality(PassIds) : AddPass(p, i)
    \/ \E effects \in EffectLists : SetEffects(effects)
    \/ \E v \in BOOLEAN : SetPremultiplied(v)
    \/ \E dt \in Deltas : Render(dt)

SpecConfig == InitConfig /\ [][NextConfig]_vars

(* ----------------------- properties of EffectPass --------------------- *)

\* The fused draws of the frame that was rendered last.
FusedDraws ==
    IF Rendered
    THEN {last.log[k].draws[1] :
             k \in {j \in 1 .. Len(last.log) :
                       last.log[j].pass = "fx" /\ last.log[j].draws # <<>>}}
    ELSE {}

\* The effects of the list that carry the convolution attribute.
ConvolutionEffects(effects) ==
    {i \in 1 .. Len(effects) : AttrConvolution \in getAttributes(effects[i])}

\* setEffects with two convolution effects raises the error, leaves the
\* pass as it is, and is no render call.
ConfigStep ==
    \A effects \in EffectLists :
        (SetEffects(effects) /\ Cardinality(ConvolutionEffects(effects)) >= 2)
            => /\ raised' = "ConfigurationError"
               /\ fx' = fx
               /\ last'.op # "render"

UniformStep ==
    /\ \A v \in Strengths :
          SetEdgeStrength(v) => fx' = fx /\ changed' = changed /\ defines' = defines
    /\ last'.op = "render" =>
          \A k \in 1 .. Len(last'.log) :
              last'.log[k].pass = "fx" =>
                  LET u == last'.log[k].draws[1].uniforms
                  IN  /\ u.edgeStrength = uniforms.edgeStrength
                      /\ u.pulse = OutlineEffectUpdate(EffectState, 0).uniforms.pulse
                      /\ u = uniforms'

\* C9: a frame of a compiled EffectPass, rendered after uniform cells only
\* were written, leaves the version counter as it was; writing a uniform
\* cell changes neither the pass nor a change marker; and the frame draws
\* with the values written.
C9_UniformsAreCheap ==
    /\ [](Rendered /\ FusedDraws # {} /\ last.versionBefore >= 1 /\ last.pending = 0
            => fx.version = last.versionBefore)
    /\ [][UniformStep]_vars

\* A compiled pass was rendered again, with an edge strength the host
\* wrote and a pulse that update wrote, and was not recompiled.
C9_Witness ==
    /\ Rendered
    /\ last.versionBefore >= 1
    /\ last.pending = 0
    /\ fx.version = last.versionBefore
    /\ \E d \in FusedDraws : d.uniforms.edgeStrength = 0 /\ d.uniforms.pulse > 0

\* The version counter and the compiled key change in render calls only.
CompileStep ==
    (fx'.version # fx.version \/ fx'.key # fx.key \/ fx'.compiled # fx.compiled)
        => last'.op = "render"

\* C10 as stated: a frame of a compiled pass recompiles once when define
\* or membership changes were made since the last frame, and not at all
\* when none was made.
C10_OneCompilePerChangedFrame ==
    Rendered /\ FusedDraws # {} /\ last.versionBefore >= 1
        => fx.version = last.versionBefore + (IF last.pending >= 1 THEN 1 ELSE 0)

\* C10: an EffectPass recompiles in render calls only; a frame recompiles
\* once when the cache key differs from the key of the last compile,
\* whatever the number of changes made since, and not at all when the key
\* is the same, which includes changes that undo each other.
C10_CompileWhenKeyDiffers ==
    /\ [](Rendered /\ FusedDraws # {}
            => fx.version = last.versionBefore + (IF last.keyDiffers THEN 1 ELSE 0))
    /\ [](Rendered /\ FusedDraws # {} /\ last.pending = 0 /\ last.versionBefore >= 1
            => ~last.keyDiffers)
    /\ [][CompileStep]_vars

\* Two changes were made between two frames of a compiled pass, and the
\* second frame recompiled once.
C10_Witness ==
    /\ Rendered
    /\ FusedDraws # {}
    /\ last.versionBefore >= 1
    /\ last.pending = MaxPending
    /\ fx.version = last.versionBefore + 1

(* ------------------------ failed recompilation ------------------------ *)

\* The pipeline of a host that constructs an EffectPass with a noise
\* effect, on a driver that may reject a program.
InitCompile == InitWith({"fx", "noise"}, <<"noise">>, TRUE)

Drivers == {"accepts", "rejects"}

NextCompile ==
    \/ \E p \in PassIds, i \in 1 .. Cardinality(PassIds) : AddPass(p, i)
    \/ \E p \in PassIds, v \in BOOLEAN : SetEnabled(p, v)
    \/ \E v \in BOOLEAN : SetPremultiplied(v)
    \/ \E d \in Drivers : SetDriver(d)
    \/ \E dt \in Deltas : Render(dt)

SpecCompile == InitCompile /\ [][NextCompile]_vars

\* A frame in which the recompilation failed raises the error and leaves
\* the pass on the program it had, or disabled.
FailStep ==
    (last'.op = "render" /\ "fx" \in last'.failed)
        => /\ raised' = "CompileError"
           /\ \/ fx.compiled /\ fx'.compiled /\ fx'.key = fx.key
                 /\ fx'.version = fx.version
              \/ ~enabled'["fx"]

\* C11: a failed recompilation raises CompileError in the render call that
\* tried it; afterwards the pass has the program of its last successful
\* compile, unchanged, or is disabled; every fused draw uses a completely
\* built program, the one of the last successful compile.
C11_FailedCompileKeepsProgram ==
    /\ [](\A d \in FusedDraws : d.complete /\ fx.compiled /\ d.program = fx.key)
    /\ [](Rendered => (raised = "CompileError" <=> last.failed # {}))
    /\ [][FailStep]_vars

\* A recompilation failed and the frame was drawn with the last good
\* program, which differs from the one the current defines ask for.
C11_Witness ==
    /\ raised = "CompileError"
    /\ \E d \in FusedDraws : d.program # d.current /\ d.version >= 1

(* ------------------------- fusion and blending ------------------------ *)

\* The pipeline of a host that constructs a noise effect (new NoiseEffect({
\* premultiply })), an outline effect (new OutlineEffect(scene, camera, {
\* edgeStrength: 0 })) and an EffectPass with the two effects in one of the
\* two orders, and changes the blend modes of the effects.
InitBlend ==
    \E premultiply \in BOOLEAN, effects \in DistinctSeqs({"noise", "outline"}, 2) :
        InitOf({"fx", "noise", "outline"}, effects, TRUE,
               NoiseEffectSetPremultiplied(
                   [ConstructedEffects EXCEPT !.uniforms.edgeStrength = 0],
                   premultiply))

\* The blend functions the host chooses from.
BlendChoices == {"normal", "add", "multiply"}

NextBlend ==
    \/ \E p \in PassIds, i \in 1 .. Cardinality(PassIds) : AddPass(p, i)
    \/ \E e \in EffectIds, f \in BlendChoices : SetBlendFunction(e, f)
    \/ \E e \in EffectIds, o \in Opacities : SetOpacity(e, o)
    \/ \E dt \in Deltas : Render(dt)

SpecBlend == InitBlend /\ [][NextBlend]_vars

Reverse(s) == [i \in 1 .. Len(s) |-> s[Len(s) + 1 - i]]

\* The first n effects of a key, each run as a pass of its own: the output
\* of a pass is the input of the next one.
RECURSIVE SequentialColor(_, _, _, _, _)
SequentialColor(key, n, base, depth, u) ==
    IF n = 0 THEN base
    ELSE FusedColor(<<key[n]>>, 1,
                    SequentialColor(key, n - 1, base, depth, u), depth, u)

\* The effect lists without an attribute conflict.
FusableLists == {effects \in EffectLists : ~ConvolutionConflict(effects)}

\* A frame draws, from its input buffer, what the effects of the compiled
\* program produce one after the other.
FuseStep ==
    (last'.op = "render" /\ \E k \in 1 .. Len(last'.log) :
                                last'.log[k].pass = "fx" /\ last'.log[k].draws # <<>>)
        => screen' = SequentialColor(fx'.key, Len(fx'.key), buf["inputBuffer"],
                                     depthBuf',
                                     [blendMode |-> blendMode', second |-> uniforms2']
                                         @@ uniforms')

\* C12: for every list of effects without an attribute conflict, the fused
\* program computes, from every input colour, the colour that results from
\* applying the effects one after the other in array order, each with its
\* transform and its blend composition; and a frame of the fused pass
\* leaves that colour on the display.
C12_FusedIsSequential ==
    /\ [](\A effects \in FusableLists, base \in Colors, depth \in Colors :
            LET key == CacheKey(effects, EffectState)
                u == FrameUniforms(EffectState)
            IN  FusedColor(key, 1, base, depth, u)
                    = SequentialColor(key, Len(key), base, depth, u))
    /\ [][FuseStep]_vars

\* A frame of a fused pass with two effects whose order matters.
C12_Witness ==
    /\ Rendered
    /\ \E d \in FusedDraws :
          /\ Len(d.program) = 2
          /\ screen # buf["inputBuffer"]
          /\ screen # FusedColor(Reverse(d.program), 1, buf["inputBuffer"],
                                 depthBuf, FrameUniforms(EffectState))

\* The colour a fused pass with the effects a and b, in this order, leaves
\* from the input colour base, in the current state of the effects.
PairColor(a, b, base) ==
    FusedColor(CacheKey(<<a, b>>, EffectState), 1, base, SceneDepth,
               FrameUniforms(EffectState))

\* The colour effect e computes in its current state, from a base colour.
OwnColor(e, base) ==
    EffectTransform(CacheKey(<<e>>, EffectState)[1], base, SceneDepth,
                    FrameUniforms(EffectState))

\* The colour of effect e does not depend on the base colour.
IndependentOfBase(e) == \A x, y \in Colors : OwnColor(e, x) = OwnColor(e, y)

\* The blend functions of a and b are f and g, at full opacity.
Blends(a, f, b, g) ==
    /\ blendMode[a] = [blendFunction |-> f, opacity |-> 1]
    /\ blendMode[b] = [blendFunction |-> g, opacity |-> 1]

\* The pairs of distinct effects of the host.
EffectPairs ==
    {ab \in (EffectIds \cap objects) \X (EffectIds \cap objects) : ab[1] # ab[2]}

InitNames ==
    InitWith({"fx", "outline", "outline2"}, <<"outline", "outline2">>, TRUE)

NextNames ==
    \/ \E p \in PassIds, i \in 1 .. Cardinality(PassIds) : AddPass(p, i)
    \/ \E effects \in EffectLists : SetEffects(effects)
    \/ \E v \in BOOLEAN : SetXRayEnabled(v)
    \/ \E v \in Strengths : SetEdgeStrength(v)
    \/ \E v \in Strengths : SetSecondEdgeStrength(v)
    \/ \E dt \in Deltas : Render(dt)

SpecNames == InitNames /\ [][NextNames]_vars

\* What the members of the compiled program declare: uniforms and defines.
DeclaredUniformEntries ==
    {<<i, n>> : i \in 1 .. Len(fx.key), n \in OutlineEffectUniforms} \cap
    {x \in (1 .. Len(fx.key)) \X OutlineEffectUniforms :
        x[2] \in DeclaredUniforms(fx.key[x[1]].effect)}

DeclaredDefineEntries ==
    UNION {{<<i, kv[1]>> : kv \in fx.key[i].defines} : i \in 1 .. Len(fx.key)}

\* A write to a uniform cell of one effect leaves what the code of every
\* member that is another effect reads.
WriteStep ==
    (fx.compiled /\ fx' = fx /\ (uniforms' # uniforms \/ uniforms2' # uniforms2))
        => \A i \in 1 .. Len(fx.key) :
               LET e == fx.key[i].effect
                   written == IF uniforms' # uniforms THEN "outline" ELSE "outline2"
               IN  e # written =>
                       \A n \in DeclaredUniforms(e) :
                           ReadUniform(fx, EffectState, i, n)
                               = ReadUniform(fx, [EffectState EXCEPT
                                                     !.uniforms = uniforms',
                                                     !.uniforms2 = uniforms2'], i, n)

\* C14: in a compiled EffectPass every uniform and every define a member
\* declares has an entry of its own in the fused namespace, under a name no
\* other entry has, that refers to the member's own cell; the fused maps
\* have as many entries as the members declare in total; and a write to a
\* cell of one effect is not seen by the code of another member.
C14_FusedNamesAreUnique ==
    /\ [](fx.compiled =>
            /\ \A x \in DeclaredUniformEntries :
                   /\ FusedName(x[1], x[2]) \in DOMAIN fx.uniforms
                   /\ fx.uniforms[FusedName(x[1], x[2])]
                          = [effect |-> fx.key[x[1]].effect, cell |-> x[2]]
            /\ \A x \in DeclaredDefineEntries :
                   /\ FusedName(x[1], x[2]) \in DOMAIN fx.defines
                   /\ fx.defines[FusedName(x[1], x[2])]
                          = [effect |-> fx.key[x[1]].effect, define |-> x[2]]
            /\ \A x, y \in DeclaredUniformEntries \cup DeclaredDefineEntries :
                   x # y => FusedName(x[1], x[2]) # FusedName(y[1], y[2])
            /\ Cardinality(DOMAIN fx.uniforms) = Cardinality(DeclaredUniformEntries)
            /\ Cardinality(DOMAIN fx.defines) = Cardinality(DeclaredDefineEntries))
    /\ [][WriteStep]_vars

\* A pass compiled from two outline effects that both declare edgeStrength
\* and X_RAY, after a write to the edge strength of one of them: the two
\* cells hold different values.
C14_Witness ==
    /\ fx.compiled
    /\ KeyEffects(fx.key) = <<"outline", "outline2">>
    /\ \A i \in 1 .. 2 : DefinesHas(fx.key[i].defines, "X_RAY")
    /\ last.op = "other"
    /\ uniforms.edgeStrength # uniforms2.edgeStrength
    /\ ReadUniform(fx, EffectState, 1, "edgeStrength")
           # ReadUniform(fx, EffectState, 2, "edgeStrength")

(* ------------------------ requirement bitmask ------------------------- *)

\* The frame that was rendered last compiled the fused program.
CompiledInFrame == Rendered /\ fx.compiled /\ fx.version > last.versionBefore

\* C15: after every successful compile the requirement bitmask of the pass
\* holds exactly the attributes that some member declares, and the pass
\* requires scene depth exactly when a member is an effect that samples
\* the depth buffer.
C15_AttributesAreUnion ==
    CompiledInFrame =>
        /\ \A a \in {AttrDepth, AttrConvolution} :
               a \in fx.attributes
                   <=> \E i \in 1 .. Len(fx.effects) : a \in getAttributes(fx.effects[i])
        /\ fx.attributes \subseteq {AttrDepth, AttrConvolution}
        /\ RequiresDepth("fx", fx)
               <=> \E i \in 1 .. Len(fx.effects) : SamplesDepth(fx.effects[i])

\* A frame that compiled a pass of a noise effect and a depth effect: the
\* pass requires depth, and the depth producer stage ran.
C15_Witness ==
    /\ CompiledInFrame
    /\ fx.effects = <<"noise", "depth">>
    /\ RequiresDepth("fx", fx)
    /\ last.depthWrites # <<>>

(* ------------------------ blend mode changes -------------------------- *)

\* The pipeline of a host that constructs an EffectPass with an outline
\* effect and changes the blend function and the opacity of the effect.
InitBlendChange == InitWith({"fx", "outline"}, <<"outline">>, TRUE)

NextBlendChange ==
    \/ \E p \in PassIds, i \in 1 .. Cardinality(PassIds) : AddPass(p, i)
    \/ \E e \in EffectIds, f \in BlendFunctions : SetBlendFunction(e, f)
    \/ \E e \in EffectIds, o \in Opacities : SetOpacity(e, o)
    \/ \E dt \in Deltas : Render(dt)

SpecBlendChange == InitBlendChange /\ [][NextBlendChange]_vars

\* C16: a change of the blend function or of the opacity of an effect
\* leaves the changed mark and the defines of every effect as they were,
\* and a frame of a compiled pass before which nothing but blend modes
\* changed does not recompile.
C16_BlendChangeIsCheap ==
    /\ last.op \in {"blend", "opacity"}
           => changed = last.changed /\ defines = last.defines
    /\ (Rendered /\ last.versionBefore >= 1 /\ last.pending = 0)
           => fx.version = last.versionBefore

(* ------------------------------ resizing ------------------------------ *)

\* The pipeline of a host that constructs a tone mapping pass, a bloom pass
\* and an EffectPass with an outline effect, and resizes them.
InitResize == InitWith({"tone", "bloom", "fx", "outline"}, <<"outline">>, TRUE)

NextResize ==
    \/ \E p \in PassIds, i \in 1 .. Cardinality(PassIds) : AddPass(p, i)
    \/ \E p \in PassIds, v \in BOOLEAN : SetEnabled(p, v)
    \/ \E w, h \in Sizes : ComposerSetSize(w, h)
    \/ \E w, h \in Sizes : BloomSetSize(w, h)
    \/ \E x \in ToneResolutions : SetToneResolution(x)

SpecResize == InitResize /\ [][NextResize]_vars

\* The pipeline of a host that constructs an EffectPass with an outline
\* effect, resizes it and changes the resolution of the effect.
InitResolution == InitWith({"fx", "outline"}, <<"outline">>, TRUE)

NextResolution ==
    \/ \E p \in PassIds, i \in 1 .. Cardinality(PassIds) : AddPass(p, i)
    \/ \E w, h \in Sizes : ComposerSetSize(w, h)
    \/ \E v \in Scales : SetResolutionScale(v)
    \/ \E v \in Overrides : SetWidth(v)
    \/ \E v \in Overrides : SetHeight(v)

SpecResolution == InitResolution /\ [][NextResolution]_vars

\* x is the quotient a / b rounded to the nearest integer, halves upwards.
Nearest(x, a, b) == (0 - b) < 2 * b * x - 2 * a /\ 2 * b * x - 2 * a <= b

\* The resolution with a base size, a scale in halves and overrides.
ResolutionOf(baseWidth, baseHeight, scale, preferredWidth, preferredHeight) ==
    [baseWidth |-> baseWidth, baseHeight |-> baseHeight, scale |-> scale,
     preferredWidth |-> preferredWidth, preferredHeight |-> preferredHeight]

\* C17: the effective width of a resolution is the width override when one
\* is set and the base width times the scale, rounded, otherwise, and
\* symmetrically for the height; with an override on exactly one axis the
\* other axis is the override scaled by the base aspect ratio, rounded.  The
\* render target of the outline effect has the effective size.  Base
\* 1920x1080 with scale 0.5 gives 960x540, and with a width override of 100
\* the height is 56.
C17_EffectiveSize ==
    LET r == sizes.resolution
        w == ResolutionWidth(r)
        h == ResolutionHeight(r)
        autoW == r.preferredWidth = AutoSize
        autoH == r.preferredHeight = AutoSize
    IN  /\ ~autoW => w = r.preferredWidth
        /\ ~autoH => h = r.preferredHeight
        /\ (autoW /\ autoH) => /\ Nearest(w, r.baseWidth * r.scale, ScaleUnit)
                                /\ Nearest(h, r.baseHeight * r.scale, ScaleUnit)
        /\ (~autoW /\ autoH) => Nearest(h, r.preferredWidth * r.baseHeight, r.baseWidth)
        /\ (autoW /\ ~autoH) => Nearest(w, r.preferredHeight * r.baseWidth, r.baseHeight)
        /\ sizes.outline = <<w, h>>
        /\ ResolutionWidth(ResolutionOf(1920, 1080, 1, AutoSize, AutoSize)) = 960
        /\ ResolutionHeight(ResolutionOf(1920, 1080, 1, AutoSize, AutoSize)) = 540
        /\ ResolutionHeight(ResolutionOf(1920, 1080, 1, 100, AutoSize)) = 56

\* A resolution with base size 3x4 and a width override of 2: the height is
\* 2 * 4 / 3 rounded, and the render target of the outline effect has that
\* size.
C17_Witness ==
    /\ last.op = "resize"
    /\ sizes.resolution = ResolutionOf(3, 4, 1, 2, AutoSize)
    /\ ResolutionHeight(sizes.resolution) = 3
    /\ sizes.outline = <<2, 3>>

\* C18: an operation that changes the base size (both fields in one call),
\* the scale or an override of a resolution delivers at most one change
\* notification to the listener of the outline effect.
C18_OneNotification ==
    /\ sizes.notified <= 1
    /\ (last.op = "resize" /\ sizes.resolution # last.before) => sizes.notified = 1

\* scheduler.setSize changed the base width and the base height of the
\* resolution in one call, and the listener was notified.
C18_Witness ==
    /\ last.op = "resize" /\ last.name = "scheduler.setSize"
    /\ sizes.resolution.baseWidth # last.before.baseWidth
    /\ sizes.resolution.baseHeight # last.before.baseHeight
    /\ sizes.notified = 1

\* x is a * scale rounded down, and at least one pixel.
ScaledDown(x, a, scale) ==
    \/ x = 1 /\ a * scale < ScaleUnit
    \/ x >= 1 /\ ScaleUnit * x <= a * scale /\ a * scale < ScaleUnit * (x + 1)

\* C19: after scheduler.setSize(w, h) every pass of the list, enabled or
\* disabled, has received setSize(w, h), and the buffers of each pass have
\* the size its own resolution gives for (w, h): the render targets of the
\* bloom pass w and h times its resolution scale, the targets of the
\* outline effect of the EffectPass the size of its resolution with the
\* base size (w, h), whatever the other passes are.
C19_ResizeReachesEveryPass ==
    (last.op = "resize" /\ last.name = "scheduler.setSize" /\ raised = "none") =>
        LET w == last.args[1]
            h == last.args[2]
        IN  /\ sizes.composer = <<w, h>>
            /\ \A i \in 1 .. Len(passes) : sizes.received[passes[i]] = <<w, h>>
            /\ "bloom" \in Range(passes) =>
                   /\ sizes.bloomX = sizes.bloomY
                   /\ ScaledDown(sizes.bloomX[1], w, sizes.bloomScale)
                   /\ ScaledDown(sizes.bloomX[2], h, sizes.bloomScale)
            /\ ("fx" \in Range(passes) /\ "outline" \in Range(fx.effects)) =>
                   /\ sizes.resolution.baseWidth = w
                   /\ sizes.resolution.baseHeight = h
                   /\ sizes.mask = <<w, h>>
                   /\ sizes.outline = <<ResolutionWidth(sizes.resolution),
                                        ResolutionHeight(sizes.resolution)>>
                   /\ sizes.blur = sizes.outline

\* scheduler.setSize(3, 4) on a list of the three passes, the bloom pass
\* disabled: the bloom targets are 1x2, the outline target is 2x2.
C19_Witness ==
    /\ last.op = "resize" /\ last.name = "scheduler.setSize" /\ raised = "none"
    /\ last.args = <<3, 4>>
    /\ Range(passes) = {"tone", "bloom", "fx"}
    /\ ~enabled["bloom"]
    /\ \A p \in Range(passes) : sizes.received[p] = <<3, 4>>
    /\ sizes.bloomX = <<1, 2>>
    /\ sizes.outline = <<2, 2>>

\* C20: a resize or a mutation of a resolution with a width, a height or a
\* resolution of zero or less raises a ResourceError to the caller.
C20_InvalidSizeRaises ==
    ( /\ last.op = "resize"
      /\ last.name \in {"scheduler.setSize", "bloom.setSize", "tone.resolution"}
      /\ \E k \in 1 .. Len(last.args) : last.args[k] <= 0 )
        => raised = "ResourceError"

(* --------------------- the selection of objects ----------------------- *)

\* A host that works on the selection of its outline effect.
InitSelection ==
    /\ InitWith({"fx", "outline"}, <<"outline">>, FALSE)
    /\ buf.inputBuffer = 0

NextSelection ==
    \/ \E o \in SceneObjects : Add(o)
    \/ \E o \in SceneObjects : Delete(o)
    \/ \E o \in SceneObjects : Toggle(o)
    \/ Clear
    \/ \E list \in ObjectLists : Set(list)
    \/ \E v \in Channels : SetLayer(v)
    \/ \E v \in BOOLEAN : SetExclusive(v)
    \/ \E v \in BOOLEAN : SetVisible(v)
    \/ \E iterable \in {NoIterable} \cup {{list} : list \in ObjectLists},
          layer \in Channels : New(iterable, layer)

SpecSelection == InitSelection /\ [][NextSelection]_vars

\* The last operation was the call of the selection's method of that name.
Called(name) == last.op = "selection" /\ last.name = name

\* C25: after add(o), o is a member with the selection's layer enabled; an
\* exclusive selection leaves o no other layer, a selection that is not
\* exclusive leaves the other layers of o as they were; the layers of the
\* other objects are as they were.
C25_Add ==
    Called("add") =>
        LET o == last.args[1]
            B == last.before
        IN  /\ o \in sel.members
            /\ B.l \in sel.layers[o]
            /\ B.exclusive => sel.layers[o] = {B.l}
            /\ ~B.exclusive => sel.layers[o] \ {B.l} = B.layers[o] \ {B.l}
            /\ \A p \in SceneObjects \ {o} : sel.layers[p] = B.layers[p]

\* An exclusive add took an object off the layers it was on.
C25_Witness ==
    /\ Called("add")
    /\ last.before.exclusive
    /\ last.before.layers[last.args[1]] \ {last.before.l} # {}
    /\ sel.layers[last.args[1]] = {sel.l}

\* C26: delete(o) of a member disables the selection's layer on o, removes
\* o and returns true; delete(o) of a non-member returns false and leaves
\* the layers and the members as they were.
C26_Delete ==
    Called("delete") =>
        LET o == last.args[1]
            B == last.before
        IN  IF o \in B.members
            THEN /\ B.l \notin sel.layers[o]
                 /\ sel.members = B.members \ {o}
                 /\ last.result = "true"
            ELSE /\ last.result = "false"
                 /\ sel.layers = B.layers
                 /\ sel.members = B.members

\* A member was deleted and lost the selection's layer.
C26_Witness ==
    /\ Called("delete")
    /\ last.args[1] \in last.before.members
    /\ last.before.l \in last.before.layers[last.args[1]]
    /\ last.result = "true"

\* C27: setVisible(v) sets layer 0 of every member to v and changes
\* nothing else: the other layers of the members, the layers of the other
\* objects, the members, the layer and the exclusive flag of the selection
\* are as they were.
C27_SetVisible ==
    Called("setVisible") =>
        LET v == last.args[1]
            B == last.before
        IN  /\ \A o \in B.members :
                  /\ (0 \in sel.layers[o]) <=> v
                  /\ sel.layers[o] \ {0} = B.layers[o] \ {0}
            /\ \A o \in SceneObjects \ B.members : sel.layers[o] = B.layers[o]
            /\ sel.members = B.members
            /\ sel.l = B.l
            /\ sel.exclusive = B.exclusive

\* setVisible(false) hid a member while an object outside the selection
\* stayed on layer 0.
C27_Witness ==
    /\ Called("setVisible")
    /\ ~last.args[1]
    /\ \E o \in sel.members : 0 \in last.before.layers[o] /\ 0 \notin sel.layers[o]
    /\ \E o \in SceneObjects \ sel.members : 0 \in sel.layers[o]

\* C28: setting the layer to v leaves every member with layer v enabled
\* and, when v is not the old layer, with the old layer disabled; the
\* members are as they were, and an add and a delete that follow enable and
\* disable layer v.
C28_SetLayer ==
    Called("layer") =>
        LET v == last.args[1]
            B == last.before
        IN  /\ \A o \in sel.members :
                  /\ v \in sel.layers[o]
                  /\ v # B.l => B.l \notin sel.layers[o]
            /\ sel.members = B.members
            /\ \A o \in SceneObjects :
                  /\ v \in SelectionAdd(sel, o).layers[o]
                  /\ v \notin SelectionDelete(SelectionAdd(sel, o), o).layers[o]

\* The layer of a selection with a member was changed to another layer.
C28_Witness ==
    /\ Called("layer")
    /\ last.args[1] # last.before.l
    /\ \E o \in sel.members :
          last.before.l \in last.before.layers[o] /\ last.args[1] \in sel.layers[o]

\* C29: after set(objects), and after new Selection(objects, layer), the
\* members are the given objects, each with the selection's layer enabled;
\* after set(objects) every former member that is not given has the
\* selection's layer disabled.
C29_Set ==
    /\ Called("set") =>
          LET given == Range(last.args[1])
              B == last.before
          IN  /\ sel.members = given
              /\ \A o \in given : sel.l \in sel.layers[o]
              /\ \A o \in B.members \ given : B.l \notin sel.layers[o]
    /\ (Called("new") /\ last.args[1] # NoIterable) =>
          LET given == UNION {Range(list) : list \in last.args[1]}
          IN  /\ sel.members = given
              /\ \A o \in given : sel.l \in sel.layers[o]

\* set(objects) replaced a member by another object.
C29_Witness ==
    /\ Called("set")
    /\ last.before.members \ Range(last.args[1]) # {}
    /\ Range(last.args[1]) \ last.before.members # {}
    /\ \E o \in last.before.members : last.before.l \in last.before.layers[o]

\* C30: toggle(o) returns true exactly when o was no member and is one
\* now, false exactly when o was a member and is none now; a second
\* toggle(o) leaves the members as they were before the first.
C30_Toggle ==
    Called("toggle") =>
        LET o == last.args[1]
            B == last.before
        IN  /\ (last.result = "true") <=> (o \notin B.members /\ o \in sel.members)
            /\ (last.result = "false") <=> (o \in B.members /\ o \notin sel.members)
            /\ last.result \in {"true", "false"}
            /\ SelectionToggle(sel, o).members = B.members

\* toggle(o) removed a member of an exclusive selection.
C30_Witness ==
    /\ Called("toggle")
    /\ last.args[1] \in last.before.members
    /\ last.before.exclusive
    /\ last.result = "false"
    /\ last.args[1] \notin sel.members

(* ------------------------ frames and buffer sizes --------------------- *)

\* The pipeline of a host that resizes its passes and changes the
\* resolution of the outline effect between frames.
InitFrame ==
    /\ InitWith({"tone", "bloom", "fx", "outline"}, <<"outline">>, TRUE)
    /\ buf.inputBuffer = 1

FrameSizes == {3, 4}

NextFrame ==
    \/ \E p \in PassIds : AddPass(p, Len(passes) + 1)
    \/ \E n \in SelectionSizes : SetSelection(n)
    \/ \E w \in FrameSizes : ComposerSetSize(w, w)
    \/ \E v \in Scales : SetResolutionScale(v)
    \/ \E x \in ToneResolutions : SetToneResolution(x)
    \/ Render(1)

SpecFrame == InitFrame /\ [][NextFrame]_vars

\* The sizes of the buffers the passes and the outline effect own.
BufferSizes(S) == <<S.blur, S.mask, S.outline, S.bloomX, S.bloomY, S.tone>>

\* C21: a frame leaves the size of every buffer of the passes and of the
\* outline effect as it was; the sizes change in setSize calls and
\* resolution changes only.
C21_RenderKeepsSizes ==
    [][ /\ last'.op = "render" => BufferSizes(sizes') = BufferSizes(sizes)
        /\ BufferSizes(sizes') # BufferSizes(sizes) => last'.op = "resize" ]_vars

\* A frame in which the tone mapping pass, the bloom pass and the outline
\* effect rendered into buffers that had been resized.
C21_Witness ==
    /\ last.op = "render"
    /\ \A p \in {"tone", "bloom", "fx"} : \E k \in 1 .. Len(last.log) : last.log[k].pass = p
    /\ outline.maskRendered
    /\ sizes.bloomX # InitialSizes.bloomX
    /\ sizes.outline # InitialSizes.outline
    /\ sizes.tone # InitialSizes.tone

(* ---------------------- initialize before render ---------------------- *)

\* The pipeline of a host that adds and removes passes, selects and
\* deselects objects and renders.
InitInitialize == InitWith({"tone", "bloom", "fx", "outline"}, <<"outline">>, TRUE)

NextInitialize ==
    \/ \E p \in PassIds : AddPass(p, Len(passes) + 1)
    \/ \E p \in PassIds : RemovePass(p)
    \/ \E n \in SelectionSizes : SetSelection(n)
    \/ \E v \in BOOLEAN : SetBlur(v)
    \/ \E dt \in Deltas : Render(dt)

SpecInitialize == InitInitialize /\ [][NextInitialize]_vars

\* C22: every pass a frame rendered was initialized before, and so was
\* every pass of the outline effect that the effect has rendered.
C22_InitializeBeforeRender ==
    /\ last.op = "render" =>
          \A k \in 1 .. Len(last.log) : last.log[k].pass \in initialized
    /\ outline.subRendered \subseteq outline.subInitialized

(* ------------------------- create and dispose ------------------------- *)

\* A host that constructs passes and effects and disposes them, with no
\* scheduler and no renderer.
InitCreate == InitOf({}, <<>>, TRUE, BlankEffects)

NextCreate ==
    \/ \E k \in Constructible, d \in Definitions : Create(k, d)
    \/ \E o \in Constructible : PassDispose(o)

SpecCreate == InitCreate /\ [][NextCreate]_vars

\* C24: constructing a pass or an effect with default arguments, and
\* disposing it, raises no error.
C24_CreateAndDisposeNoFault ==
    last.op \in {"construct", "dispose"} => raised = "none"

(* ------------------- recompilation and draw calls --------------------- *)

\* The pipeline of a host that constructs an EffectPass with an outline
\* effect and, between frames, changes the blend function of the effect,
\* which its change listener answers with setChanged(), and calls setters
\* of the effect.
InitRecompile == InitWith({"fx", "outline"}, <<"outline">>, TRUE)

RecompileBlends == {"screen", "alpha"}

NextRecompile ==
    \/ \E p \in PassIds : AddPass(p, Len(passes) + 1)
    \/ \E f \in RecompileBlends : SetBlendFunction("outline", f)
    \/ \E v \in BOOLEAN : SetXRayEnabled(v)
    \/ \E n \in SelectionSizes : SetSelection(n)
    \/ \E dt \in Deltas : Render(dt)

SpecRecompile == InitRecompile /\ [][NextRecompile]_vars

Formulas == BlendFunctions \cup {"colorBurn"}

\* A shader calls blend(x, y, opacity) of the blend function f.
Blend(f, x, y, a) ==
    /\ last' = [op |-> "combine", f |-> f, x |-> x, y |-> y, a |-> a,
                result |-> BlendModeCombine(f, x, y, a)]
    /\ raised' = "none"
    /\ UNCHANGED <<objects, sizes, sel, schedVars, lifeVars, gpuVars, fx, effectVars,
                   driver, pending>>

InitFormula == InitWith({"fx", "noise"}, <<"noise">>, TRUE)

NextFormula ==
    \E f \in Formulas, x, y \in Colors, a \in 0 .. OpacityUnit : Blend(f, x, y, a)

SpecFormula == InitFormula /\ [][NextFormula]_vars

\* C31: for every blend function but add, skip and alpha, the combined
\* colour is base at opacity 0, the result of the formula at opacity 1 and
\* between the two at every opacity; the formula of normal gives the
\* blended colour.
C31_Interpolation ==
    (last.op = "combine" /\ last.f \notin {"add", "skip", "alpha"}) =>
        LET z == BlendFormula(last.f, last.x, last.y)
        IN  /\ last.a = 0 => last.result = last.x
            /\ last.a = OpacityUnit => last.result = z
            /\ Min(last.x, z) <= last.result
            /\ last.result <= last.x + z - Min(last.x, z)
            /\ last.f = "normal" => z = last.y

\* The colour-burn function at opacity 1 darkened a grey base.
C31_Witness ==
    /\ last.op = "combine"
    /\ last.f = "colorBurn"
    /\ last.a = OpacityUnit
    /\ last.x \notin {0, MaxLevel}
    /\ last.result < last.x

(* ------------------------ layers of the members ----------------------- *)

\* C32, as stated: every member of the selection has the layer of the
\* selection enabled.
C32_MembersOnLayer == \A o \in sel.members : sel.l \in sel.layers[o]

\* C32: every member of the selection has the layer of the selection
\* enabled while that layer is not 0; setVisible(false) of a selection on
\* layer 0 leaves no member on layer 0.
C32_MembersOnLayerButZero ==
    /\ sel.l # 0 => C32_MembersOnLayer
    /\ (Called("setVisible") /\ ~last.args[1] /\ sel.l = 0) =>
           \A o \in sel.members : 0 \notin sel.layers[o]

\* The layer setter moved a hidden member from layer 0 to another layer.
C32_Witness ==
    /\ Called("layer")
    /\ last.before.l = 0
    /\ sel.l # 0
    /\ \E o \in sel.members : 0 \notin last.before.layers[o] /\ sel.l \in sel.layers[o]

\* A selection hidden on layer 0.
C32_HiddenWitness ==
    /\ Called("setVisible")
    /\ sel.l = 0
    /\ sel.members # {}
    /\ ~C32_MembersOnLayer

NextAddDelete ==
    \/ NextSelection
    \/ \E o \in SceneObjects : AddDelete(o)

SpecAddDelete == InitSelection /\ [][NextAddDelete]_vars

\* add(o) and then delete(o) were called for an object o that was no member.
AddedAndDeleted ==
    /\ Called("add, delete")
    /\ last.args[1] \notin last.before.members

\* C33, as stated: add(o) and then delete(o) of an object o that was no
\* member leaves o the layers it had.
C33_AddDeleteRestores ==
    AddedAndDeleted => sel.layers[last.args[1]] = last.before.layers[last.args[1]]

\* C33: add(o) and then delete(o) of an object o that was no member leaves
\* o the layers it had without the layer of the selection when the selection
\* is not exclusive, and no layer when it is exclusive; o is no member, and
\* the other objects and the fields of the selection are as before.
C33_AddDelete ==
    AddedAndDeleted =>
        LET o == last.args[1]
            B == last.before
        IN  /\ sel.layers[o] = IF B.exclusive THEN {} ELSE B.layers[o] \ {B.l}
            /\ sel.layers[o] = B.layers[o] <=>
                   IF B.exclusive THEN B.layers[o] = {} ELSE B.l \notin B.layers[o]
            /\ sel = [B EXCEPT !.layers[o] = sel.layers[o]]

\* A selection that is not exclusive gave an object its layers back.
C33_Witness ==
    /\ AddedAndDeleted
    /\ ~last.before.exclusive
    /\ last.before.layers[last.args[1]] # {}
    /\ sel.layers[last.args[1]] = last.before.layers[last.args[1]]

\* An exclusive selection left an object without a layer.
C33_ExclusiveWitness ==
    /\ AddedAndDeleted
    /\ last.before.exclusive
    /\ last.before.layers[last.args[1]] # {}
    /\ sel.layers[last.args[1]] = {}

(* ------------------- OutlineEffect.update and the scene --------------- *)

\* scene.background: no background, or a colour.
Backgrounds == {"null", "color"}

\* camera.layers of the camera of the effect.
CameraLayers == {{0}, {0, 1}}

OutlineEffectUpdateSceneKeepCamera(W) ==
    IF W.selection.members # {}
    THEN [W EXCEPT !.camera = LayersSet(@, W.selection.l)]
    ELSE W

\* What OutlineEffect.update does to the scene, the camera and the selected
\* objects: with a selection it removes the background, hides the selection
\* for the depth pass and shows it again, puts the camera on the layer of
\* the selection for the mask pass and then restores the layer mask of the
\* camera and the background it saved; without a selection it touches none.
OutlineEffectUpdateScene(W) ==
    IF W.selection.members # {}
    THEN LET W1 == [W EXCEPT !.background = "null"]
             W2 == [W1 EXCEPT !.selection = SelectionSetVisible(@, FALSE)]
             W3 == [W2 EXCEPT !.selection = SelectionSetVisible(@, TRUE)]
             W4 == [W3 EXCEPT !.camera = LayersSet(@, W.selection.l)]
         IN  [W4 EXCEPT !.camera = W.camera, !.background = W.background]
    ELSE W

\* outlineEffect.update(renderer, inputBuffer, deltaTime), called with the
\* selection of the host, a camera and a scene; passes records the passes of
\* the effect this call rendered.
Update(deltaTime, camera, background) ==
    /\ "outline" \in objects
    /\ \E E0 \in {[EffectState EXCEPT
                      !.outline.selectionSize = Cardinality(sel.members),
                      !.outline.subRendered = {}]} :
       \E E1 \in {OutlineEffectUpdate(E0, deltaTime)} :
       \E W \in {OutlineEffectUpdateScene([camera |-> camera, background |-> background,
                                           selection |-> sel])} :
           /\ E1.outline.time <= MaxTime
           /\ SetEffectState([E1 EXCEPT !.outline.subRendered =
                                            @ \cup outline.subRendered])
           /\ sel' = W.selection
           /\ last' = [op |-> "update", deltaTime |-> deltaTime, before |-> sel,
                       time |-> outline.time, maskRendered |-> outline.maskRendered,
                       camera |-> camera, background |-> background,
                       cameraAfter |-> W.camera, backgroundAfter |-> W.background,
                       passes |-> E1.outline.subRendered]
    /\ raised' = "none"
    /\ UNCHANGED <<objects, sizes, schedVars, lifeVars, gpuVars, fx, driver, pending>>

InitOutline == InitSelection

NextOutline ==
    \/ \E o \in SceneObjects : Add(o)
    \/ \E o \in SceneObjects : Delete(o)
    \/ Clear
    \/ \E v \in BOOLEAN : SetExclusive(v)
    \/ \E dt \in Deltas, camera \in CameraLayers, background \in Backgrounds :
           Update(dt, camera, background)

SpecOutline == InitOutline /\ [][NextOutline]_vars

\* C34: every call of OutlineEffect.update leaves the layer mask of the
\* camera and the background of the scene as they were before the call.
C34_UpdateRestoresScene ==
    last.op = "update" =>
        /\ last.cameraAfter = last.camera
        /\ last.backgroundAfter = last.background

\* An update rendered the mask of a selection in a scene with a background,
\* with a camera that is not on the layer of the selection.
C34_Witness ==
    /\ last.op = "update"
    /\ "maskPass" \in last.passes
    /\ last.background # "null"
    /\ last.before.l \notin last.camera

\* C35: every call of OutlineEffect.update leaves every selected object the
\* layers it had before the call.
C35_UpdateKeepsLayers ==
    last.op = "update" =>
        \A o \in last.before.members : sel.layers[o] = last.before.layers[o]

\* C36: an update with an empty selection clears the mask render target
\* when an earlier update rendered the mask and none cleared it since, for
\* every delta time; it clears nothing otherwise, and it never renders the
\* mask.
C36_ClearsStaleMaskOnce ==
    (last.op = "update" /\ last.before.members = {}) =>
        /\ last.maskRendered => ("clearPass" \in last.passes /\ ~outline.maskRendered)
        /\ ~last.maskRendered => "clearPass" \notin last.passes
        /\ "maskPass" \notin last.passes

\* The same for the updates whose earlier frames advanced the time.
C36_ClearsAfterTimePassed ==
    (last.op = "update" /\ last.before.members = {} /\ last.time > 0) =>
        /\ "clearPass" \in last.passes /\ ~outline.maskRendered
        /\ "maskPass" \notin last.passes

(* ---------------------- the boolean define setters -------------------- *)

\* The effects with a boolean define setter, and the define it writes.
SetterEffects == {"noise", "depth", "outline"}

SetterDefine(e) ==
    CASE e = "noise" -> "PREMULTIPLY"
      [] e = "depth" -> "INVERTED"
      [] OTHER -> "X_RAY"

\* noiseEffect.setPremultiplied(value), depthEffect.setInverted(value) or
\* outlineEffect.setXRayEnabled(value), with the defines and the change
\* markers before the call on record.
Setter(e, value) ==
    /\ e \in objects
    /\ \E E \in {CASE e = "noise" -> NoiseEffectSetPremultiplied(EffectState, value)
                   [] e = "depth" -> DepthEffectSetInverted(EffectState, value)
                   [] OTHER -> OutlineEffectSetXRayEnabled(EffectState, value)} :
           /\ SetEffectState(E)
           /\ fx' = EffectPassOnChange(fx, E)
           /\ pending' = IF \E i \in 1 .. Len(fx.effects) :
                                E.defines[fx.effects[i]] # defines[fx.effects[i]]
                         THEN Min(MaxPending, pending + 1) ELSE pending
    /\ last' = [op |-> "setter", effect |-> e, value |-> value,
                defines |-> defines, changed |-> changed]
    /\ raised' = "none"
    /\ UNCHANGED <<objects, sizes, sel, schedVars, lifeVars, gpuVars, driver>>

InitSetters ==
    /\ InitWith({"fx", "noise", "depth", "outline"}, <<"noise", "depth", "outline">>, FALSE)
    /\ buf.inputBuffer = 0

NextSetters ==
    \/ \E e \in SetterEffects, v \in BOOLEAN : Setter(e, v)
    \/ \E p \in PassIds : AddPass(p, Len(passes) + 1)
    \/ \E dt \in Deltas : Render(dt)

SpecSetters == InitSetters /\ [][NextSetters]_vars

\* A setter called with the value the effect has changes no define and
\* leaves the change marker; called with the other value it flips the
\* define and marks the effect changed; the define then has the value set.
SetterIdempotent(e) ==
    (last.op = "setter" /\ last.effect = e) =>
        LET had == DefinesHas(last.defines[e], SetterDefine(e))
        IN  /\ had = last.value =>
                   defines[e] = last.defines[e] /\ changed[e] = last.changed[e]
            /\ had # last.value => changed[e]
            /\ DefinesHas(defines[e], SetterDefine(e)) = last.value
            /\ \A o \in EffectIds \ {e} :
                   defines[o] = last.defines[o] /\ changed[o] = last.changed[o]

\* C37: the boolean define setters of NoiseEffect, DepthEffect and
\* OutlineEffect are idempotent with respect to the change marker.
C37_SettersIdempotent == \A e \in SetterEffects : SetterIdempotent(e)

\* The same for NoiseEffect.setPremultiplied and
\* OutlineEffect.setXRayEnabled only.
C37_NoiseAndOutlineSetters == SetterIdempotent("noise") /\ SetterIdempotent("outline")

(* --------------------- the draws of BloomPass.render ------------------ *)

\* The calls of BloomPass.render in the frame that was rendered last.
BloomCalls ==
    IF Rendered THEN {k \in 1 .. Len(last.log) : last.log[k].pass = "bloom"} ELSE {}

BloomTargets == {"bloom.renderTargetX", "bloom.renderTargetY"}

\* C38: BloomPass.render issues seven draws; each of the five convolution
\* draws reads one of the two internal targets, the one the draw before it
\* wrote, and writes the other, X -> Y first; the final draw reads the target
\* the last convolution draw wrote; with renderToScreen set no draw writes
\* the read buffer.
C38_BloomPingPong ==
    \A k \in BloomCalls :
        LET d == last.log[k].draws
        IN  /\ Len(d) = 7
            /\ d[1].dst = "bloom.renderTargetX"
            /\ \A i \in 2 .. 6 :
                   /\ d[i].mat = "convolution"
                   /\ d[i].src = {d[i - 1].dst}
                   /\ d[i].dst \in BloomTargets \ d[i].src
            /\ d[6].dst \in d[7].src
            /\ last.log[k].terminal =>
                   /\ d[7].dst = "screen"
                   /\ \A i \in 1 .. 7 : d[i].dst # last.log[k].read

\* A frame in which the bloom pass rendered to the screen.
C38_Witness == \E k \in BloomCalls : last.log[k].terminal /\ Len(last.log[k].draws) = 7

(* ---------------------- the luminance targets ------------------------- *)

\* toneMappingPass.adaptive = x
SetAdaptive(x) ==
    /\ "tone" \in objects \ disposed
    /\ tone' = [tone EXCEPT !.adaptive = x]
    /\ last' = Other
    /\ raised' = "none"
    /\ UNCHANGED <<objects, sizes, sel, passes, enabled, renderToScreen, lifeVars, buf,
                   screen, depthBuf, bloom, fx, effectVars, driver, pending>>

InitTone == InitWith({"tone", "bloom"}, <<>>, TRUE)

NextTone ==
    \/ \E p \in PassIds, i \in 1 .. Cardinality(PassIds) : AddPass(p, i)
    \/ \E p \in PassIds : RemovePass(p)
    \/ \E x \in BOOLEAN : SetAdaptive(x)
    \/ \E dt \in Deltas : Render(dt)

SpecTone == InitTone /\ [][NextTone]_vars

LuminanceTargets ==
    {"tone.renderTargetLuminosity", "tone.renderTargetPrevious",
     "tone.renderTargetAdapted"}

\* The calls of ToneMappingPass.render in the frame that was rendered last.
ToneCalls ==
    IF Rendered THEN {k \in 1 .. Len(last.log) : last.log[k].pass = "tone"} ELSE {}

\* The draws of a call that read, and that write, the previous luminance.
PreviousReads(d) == {i \in 1 .. Len(d) : "tone.renderTargetPrevious" \in d[i].src}

PreviousWrites(d) == {i \in 1 .. Len(d) : d[i].dst = "tone.renderTargetPrevious"}

\* The order of the draws of a call of ToneMappingPass.render: the
\* adaptation draw reads the previous luminance before the one draw that
\* overwrites it with the adapted luminance; a call that is not adaptive
\* issues one draw, which writes no luminance target.
ToneDrawOrder ==
    \A k \in ToneCalls :
        LET d == last.log[k].draws
        IN  IF PreviousReads(d) # {}
            THEN /\ \A i \in PreviousReads(d) : d[i].mat = "adaptiveLuminosity"
                 /\ Cardinality(PreviousWrites(d)) = 1
                 /\ \A i \in PreviousReads(d), j \in PreviousWrites(d) :
                        i < j /\ d[j].src = {d[i].dst}
            ELSE /\ Len(d) = 1
                 /\ d[1].dst \notin LuminanceTargets

\* What a step does to the luminance targets: an adaptive call of render
\* moves the previous luminance it finds towards the luminance of the frame
\* and leaves the result in the adapted and the previous target; the first
\* addPass of the pass, which calls initialise, leaves mid grey in the
\* previous target; every other step leaves the three targets alone.
ToneStep ==
    IF last'.op = "render" /\ \E k \in 1 .. Len(last'.log) : last'.log[k].pass = "tone"
    THEN IF tone.adaptive
         THEN /\ Min(tone.previous, tone'.luminosity) <= tone'.adapted
              /\ tone'.adapted <= tone.previous + tone'.luminosity
                                     - Min(tone.previous, tone'.luminosity)
              /\ tone'.previous = tone'.adapted
         ELSE /\ tone'.previous = tone.previous
              /\ tone'.adapted = tone.adapted
              /\ tone'.luminosity = tone.luminosity
    ELSE /\ tone'.adapted = tone.adapted
         /\ tone'.luminosity = tone.luminosity
         /\ tone'.previous =
                IF "tone" \in initialized' \ initialized THEN InitialLuminance
                ELSE tone.previous

OutlineSetSize(width, height) ==
    /\ "outline" \in objects \ disposed
    /\ ResizeOperation("outline.setSize", <<width, height>>,
                       OutlineEffectSetSize(StartOperation(sizes), width, height), "none")

InitOutlineSize == InitResolution

NextOutlineSize ==
    \/ \E w, h \in {x \in Sizes : x > 0} : OutlineSetSize(w, h)
    \/ \E v \in Scales : SetResolutionScale(v)
    \/ \E v \in Overrides : SetWidth(v)
    \/ \E v \in Overrides : SetHeight(v)

SpecOutlineSize == InitOutlineSize /\ [][NextOutlineSize]_vars

\* C40: a call of OutlineEffect.setSize(w, h) re-enters the listener of the
\* resolution once at most, once when the base size changed; after the call
\* the base size of the resolution is (w, h), the mask target has the size
\* (w, h), and the outline target and the targets of the blur pass have the
\* effective size of the resolution.
C40_SetSizeTerminates ==
    (last.op = "resize" /\ last.name = "outline.setSize") =>
        LET w == last.args[1]
            h == last.args[2]
        IN  /\ sizes.notified <= 1
            /\ sizes.notified = 1 <=>
                   (last.before.baseWidth # w \/ last.before.baseHeight # h)
            /\ sizes.resolution = [last.before EXCEPT !.baseWidth = w, !.baseHeight = h]
            /\ sizes.mask = <<w, h>>
            /\ sizes.outline = <<ResolutionWidth(sizes.resolution),
                                 ResolutionHeight(sizes.resolution)>>
            /\ sizes.blur = sizes.outline

\* A setSize that changed the base size re-entered the listener once, and
\* left a mask target and an outline target of different sizes.
C40_Witness ==
    /\ last.op = "resize" /\ last.name = "outline.setSize"
    /\ sizes.notified = 1
    /\ sizes.mask = <<3, 4>>
    /\ sizes.outline # sizes.mask

====
